---- MODULE Spec2Model ----
(***************************************************************************)
(* Model of builder_os: the container lifecycle manager                    *)
(* (app/container/manager.py) driving a container engine.                  *)
(*                                                                         *)
(* One action per public method of ContainerManager.  The manager is       *)
(* single-threaded and synchronous, so an action is one whole invocation:  *)
(* it reads the manager's fields and the engine, issues its engine calls   *)
(* in program order, and ends by returning or raising.  What the           *)
(* invocation did (engine calls in order, result, exception) is recorded   *)
(* in `last`.                                                              *)
(***************************************************************************)
EXTENDS Naturals, Integers, Sequences, FiniteSets, TLC

(***************************************************************************)
(* Bounds of the model.                                                    *)
(***************************************************************************)
\* Number of container ids the engine can hand out in one behaviour.
MaxIds == 2

(***************************************************************************)
(* Values.                                                                 *)
(***************************************************************************)
\* Python's None for an optional string field.
NoneVal == "<None>"
\* self._container = None
NoHandle == 0
Ids == 1..MaxIds

\* types.OSType members used by the lifecycle model: member name -> value.
OSTypeValue(member) ==
    CASE member = "UBUNTU" -> "ubuntu"
      [] member = "DEBIAN" -> "debian"
      [] member = "CENTOS" -> "centos"
      [] member = "ALPINE" -> "alpine"
      [] member = "FEDORA" -> "fedora"
      [] member = "ARCHLINUX" -> "archlinux"

\* types.ContainerStatus: member name -> value.
ContainerStatusMembers ==
    [CREATED |-> "created", RUNNING |-> "running", EXITED |-> "exited",
     PAUSED |-> "paused", RESTARTING |-> "restarting",
     REMOVING |-> "removing", ERROR |-> "error", UNKNOWN |-> "unknown",
     STOPPED |-> "stopped", DEAD |-> "dead"]

\* Container names a caller may put in a spec.
Names == {"t1", "t2"}
\* The name the engine invents for a container created without one.
GeneratedName == "<generated>"

\* Volume mappings (host path -> container path) as a set of pairs.
VolumeChoices == {{}, {<<"/out", "/app/output">>}}

\* ContainerConfig values the callers pass to create.
Configs ==
    [os_type : {"UBUNTU"},
     os_version : {"22.04"},
     name : Names \cup {NoneVal},
     volumes : VolumeChoices]
    \cup {[os_type |-> "ALPINE", os_version |-> "3.19", name |-> "t2",
           volumes |-> {<<"/out", "/app/output">>}]}

\* Statuses the engine reports for a container of this model.
EngineStatuses == {"created", "running", "exited"}

\* A slot of the engine's container table that holds no container.
Absent == [present |-> FALSE, name |-> "", status |-> ""]

(***************************************************************************)
(* Bytes and text.  A bytes value and a str value are sequences of numbers *)
(* (byte values, code points); None is NoBytes.                            *)
(***************************************************************************)
NoBytes == <<-1>>
BytesHi == <<104, 105, 10>>          \* b'hi\n'
BytesPadded == <<32, 111, 107, 32>>  \* b' ok '
BytesErr == <<101, 114, 114>>        \* b'err'

\* Python truthiness of an Optional[bytes]: None and b'' are falsy.
BytesTruthy(b) == b # NoBytes /\ b # <<>>

\* bytes.decode() on ASCII data keeps the code points.
Decode(b) == [i \in 1..Len(b) |-> b[i]]

IsSpace(c) == c \in {9, 10, 11, 12, 13, 32}

RECURSIVE LStrip(_)
LStrip(s) ==
    IF s # <<>> /\ IsSpace(Head(s)) THEN LStrip(Tail(s)) ELSE s

RECURSIVE RStrip(_)
RStrip(s) ==
    IF s # <<>> /\ IsSpace(s[Len(s)])
    THEN RStrip(SubSeq(s, 1, Len(s) - 1))
    ELSE s

\* str.strip()
Strip(s) == RStrip(LStrip(s))

VARIABLES
    engine,          \* the engine's containers: id -> [present, name, status]
    nextId,          \* the id the engine gives the next container it creates
    container,       \* self._container: the held handle's id, or NoHandle
    container_status,\* the status cached in the handle's attrs ("" if none)
    current_config,  \* self._current_config: <<>> (None) or <<config>>
    last,            \* what the most recent invocation did
    file,            \* the configuration file: NoFile, or the YAML document
                     \* it holds
    scen,            \* how far the run has followed the walk-through of
                     \* spec section 8 (create, start, execute, remove)
    docker_settings, \* the config manager's self._docker_settings (held),
                     \* and the value last passed to
                     \* update_docker_settings (passed: <<>> or <<value>>)
    client,          \* self._client: <<>> while no manager is built, else
                     \* <<the timeout and API version it was built with>>
    pc,              \* where main is in its sequence, and what it has
                     \* done so far
    services,        \* DIContainer._services: type name -> instance
    factories,       \* DIContainer._factories: type name -> factory
    invocations,     \* type name -> how often get has invoked the factory
                     \* now registered under it
    registered,      \* the types registered (instance or factory) and not
                     \* removed or cleared since
    use_sudo,        \* CommandManager.use_sudo
    sudo_user        \* CommandManager.sudo_user

vars == <<engine, nextId, container, container_status, current_config,
          last, file, scen, docker_settings, client, pc,
          services, factories, invocations, registered,
          use_sudo, sudo_user>>

\* The classes handed to the dependency container: two of them are
\* different classes that carry the same class name.
ServiceTypes ==
    {[module |-> "app.core.state_manager", name |-> "StateManager"],
     [module |-> "legacy.state_manager", name |-> "StateManager"],
     [module |-> "app.core.console", name |-> "ConsoleManager"]}

\* service_type.__name__, the key of both dictionaries.
TypeName(service_type) == service_type.name

TypeNames == {TypeName(t) : t \in ServiceTypes}

\* A dictionary without keys; a key maps to <<>> while it is absent and
\* to <<value>> while it is present.
EmptyDict == [n \in TypeNames |-> <<>>]

\* The dependency container as the interpreter leaves it (both class-level
\* dictionaries empty), and a command manager built with its defaults.
CoreUntouched ==
    /\ services = EmptyDict
    /\ factories = EmptyDict
    /\ invocations = [n \in TypeNames |-> 0]
    /\ registered = {}
    /\ use_sudo = FALSE
    /\ sudo_user = NoneVal

(***************************************************************************)
(* Engine settings and the connection built from them.                     *)
(***************************************************************************)
DockerSettingsFields ==
    {"socket_path", "api_version", "timeout", "tls", "cert_path"}

\* The dataclass defaults of DockerSettings.
DockerSettingsDefaults ==
    [socket_path |-> "unix://var/run/docker.sock", api_version |-> "auto",
     timeout |-> 120, tls |-> FALSE, cert_path |-> NoneVal]

\* DockerSettings(**kwargs)
DockerSettings(kwargs) ==
    [field \in DockerSettingsFields |->
        IF field \in DOMAIN kwargs THEN kwargs[field]
        ELSE DockerSettingsDefaults[field]]

\* ContainerConfigManager.__init__: self._docker_settings = DockerSettings()
InitialDockerSettings ==
    [held |-> DockerSettings(<<>>), passed |-> <<>>]

\* docker.from_env(timeout=docker_settings.timeout,
\*                 version=docker_settings.api_version)
ClientFromEnv(settings) ==
    <<[timeout |-> settings.timeout, version |-> settings.api_version]>>

\* Mutant of OperationClient: an operation connects again with the
\* settings the config manager holds now.
OperationClientReread(c, settings) == ClientFromEnv(settings)

\* The connection a manager operation works through: self._client as
\* __init__ built it; the settings are not read again.
OperationClient(c, settings) == c

\* No main is running.
NoMain ==
    [at |-> "idle", step |-> 0, removes |-> 0, failed |-> FALSE,
     pending |-> "", escaped |-> FALSE]

(***************************************************************************)
(* The container engine, as the manager's calls use it.                    *)
(***************************************************************************)
\* client.containers.list(all=True, filters={'name': name})
EngineList(eng, name) ==
    {id \in Ids : eng[id].present /\ eng[id].name = name}

\* existing_container[0]
First(S) == CHOOSE id \in S : \A other \in S : id <= other

\* client.containers.create(name=...): the engine refuses a name in use.
EngineCreateConflict(eng, name) ==
    name # NoneVal /\ EngineList(eng, name) # {}

\* client.containers.create(...): a new container in status 'created'.
EngineCreate(eng, id, name) ==
    [i \in Ids |->
        IF i = id
        THEN [present |-> TRUE,
              name |-> IF name = NoneVal THEN GeneratedName ELSE name,
              status |-> "created"]
        ELSE eng[i]]

\* container.reload() / start() / stop() / exec_run() / logs() need the
\* container to exist in the engine.
EngineHas(eng, id) == id \in Ids /\ eng[id].present

\* Mutant of EngineStatus: the status is the one an earlier operation
\* left in the handle.
EngineStatusCached(eng, id) == container_status

\* container.reload(): the live status the engine reports.
EngineStatus(eng, id) == eng[id].status

\* container.start()
EngineStart(eng, id) == [eng EXCEPT ![id].status = "running"]

\* container.stop(): a running container exits, others are left alone.
EngineStop(eng, id) ==
    [eng EXCEPT ![id].status =
        IF eng[id].status = "running" THEN "exited" ELSE eng[id].status]

\* container.remove(force=force): the engine refuses to remove a running
\* container unless forced.
EngineRemoveConflict(eng, id, force) ==
    eng[id].status = "running" /\ ~force

EngineRemove(eng, id) == [eng EXCEPT ![id] = Absent]

(***************************************************************************)
(* Outcome of one invocation: the manager's fields and the engine after    *)
(* it, how it ended, and the engine calls it issued, in order.             *)
(***************************************************************************)
\* An exception message: the fixed text, and for a failed command the exit
\* code (<<code>>, or <<>> when the message has none) and the captured
\* output put after it.
NoCode == <<>>
Msg(text, code, detail) == [text |-> text, code |-> code, detail |-> detail]
NoMsg == Msg("", NoCode, <<>>)

Outcome(c, cs, cfg, eng, nid, kind, exc, value, msg, calls, seen, faulted) ==
    [container |-> c, container_status |-> cs, current_config |-> cfg,
     engine |-> eng, nextId |-> nid, kind |-> kind, exc |-> exc,
     value |-> value, msg |-> msg, calls |-> calls, seen_status |-> seen,
     faulted |-> faulted]

\* The engine call issued last.
LastCall(calls) == calls[Len(calls)][1]

\* Mutant of Wrapped: the handler issues the failed call once more before
\* it gives up.
WrappedAfterRetry(c, cs, cfg, eng, exc, text, calls, seen) ==
    Outcome(c, cs, cfg, eng, nextId, "raise", exc, NoneVal,
            Msg(text, NoCode, <<>>), Append(calls, calls[Len(calls)]), seen,
            LastCall(calls))

\* Mutant of Wrapped: the handler lets go of the handle.
WrappedDroppingHandle(c, cs, cfg, eng, exc, text, calls, seen) ==
    Outcome(NoHandle, cs, cfg, eng, nextId, "raise", exc, NoneVal,
            Msg(text, NoCode, <<>>), calls, seen, LastCall(calls))

\* `except DockerException as e: raise <exc>(f'<text>{e}')`: the last call
\* of `calls` raised DockerException and the handler wrapped it.
Wrapped(c, cs, cfg, eng, exc, text, calls, seen) ==
    Outcome(c, cs, cfg, eng, nextId, "raise", exc, NoneVal,
            Msg(text, NoCode, <<>>), calls, seen, LastCall(calls))

\* Mutant of HasHandle: the no-handle guard is missing.
AlwaysHasHandle(c) == TRUE

\* `if not self._container`
HasHandle(c) == c # NoHandle

\* raise ContainerNotFoundError('No container created'), before the try
\* block and before any engine call.
NotFound ==
    Outcome(container, container_status, current_config, engine, nextId,
            "raise", "ContainerNotFoundError", NoneVal,
            Msg("No container created", NoCode, <<>>), <<>>, "", "")

\* Python truthiness of an Optional[str]
StrTruthy(s) == s # NoneVal /\ s # ""

(***************************************************************************)
(* ContainerManager.create                                                 *)
(***************************************************************************)
\* image_name = f'{config.os_type.value}:{config.os_version}'
ImageName(config) == OSTypeValue(config.os_type) \o ":" \o config.os_version

\* `if config.name:` guards the lookup of an existing container.
CreateLooksUp(config) == StrTruthy(config.name)

\* The local `volumes` is assigned only under `if config.volumes:`.
VolumesBound(config) == config.volumes # {}

\* Mutant of CreateExisting: the lookup never finds a container.
CreateExistingNone(config) == {}

\* The containers the lookup returns.
CreateExisting(config) ==
    IF CreateLooksUp(config) THEN EngineList(engine, config.name) ELSE {}

\* Mutant of CreateCalls: the image is pulled after the container was
\* created.
CreateCallsPullLast(calls, image_name, name) ==
    calls \o << <<"create", image_name, name>>, <<"pull", image_name>> >>

\* The engine calls of create after the lookup: images.pull(image_name),
\* then containers.create(image=image_name, name=config.name, ...).
CreateCalls(calls, image_name, name) ==
    calls \o << <<"pull", image_name>>, <<"create", image_name, name>> >>

CreateRun(config, fault) ==
    LET image_name == ImageName(config)
        bound == <<config>>
        text == "Container creation failed: "
        callsList ==
            IF CreateLooksUp(config)
            THEN << <<"list", config.name>> >> ELSE <<>>
        callsCreate == CreateCalls(callsList, image_name, config.name)
        callsPull == SubSeq(callsCreate, 1, Len(callsList) + 1)
        existing == CreateExisting(config)
    IN
    IF CreateLooksUp(config) /\ fault = "list"
    THEN Wrapped(container, container_status, bound, engine,
                 "ContainerCreateError", text, callsList, "")
    ELSE IF existing # {}
    THEN Outcome(First(existing), EngineStatus(engine, First(existing)),
                 bound, engine, nextId, "return", "", First(existing),
                 NoMsg, callsList, "", "")
    ELSE IF fault = "pull"
    THEN Wrapped(container, container_status, bound, engine,
                 "ContainerCreateError", text, callsPull, "")
    ELSE IF ~VolumesBound(config)
    THEN Outcome(container, container_status, bound, engine, nextId,
                 "raise", "UnboundLocalError", NoneVal,
                 Msg("volumes", NoCode, <<>>), callsPull, "", "")
    ELSE IF fault = "create" \/ EngineCreateConflict(engine, config.name)
    THEN Wrapped(container, container_status, bound, engine,
                 "ContainerCreateError", text, callsCreate, "")
    ELSE Outcome(nextId, "created", bound,
                 EngineCreate(engine, nextId, config.name), nextId + 1,
                 "return", "", nextId, NoMsg, callsCreate, "", "")

(***************************************************************************)
(* ContainerManager.remove                                                 *)
(***************************************************************************)
\* `if not force:` the status is re-read before deciding on a stop.
RemoveReloads(force) == ~force

\* Mutant of RemoveStopsFirst: an unforced remove always stops first.
RemoveStopsWheneverUnforced(force, status) == ~force

\* Mutant of RemoveStopsFirst: the courtesy stop ignores `force`.
RemoveStopsIgnoringForce(force, status) == status = "running"

\* `if self._container.status == 'running':` under `if not force:`
RemoveStopsFirst(force, status) == ~force /\ status = "running"

\* self._container = None and self._current_config = None after the
\* engine removed the container.
RemoveClearedHandle == NoHandle
\* Mutant of RemoveClearedConfig: remove leaves the spec bound.
RemoveKeptConfig == current_config
RemoveClearedConfig == <<>>

RemoveRun(force, fault) ==
    LET id == container
        text == "Container removal failed: "
        callsReload ==
            IF RemoveReloads(force) THEN << <<"reload", id>> >> ELSE <<>>
        reloadFails ==
            RemoveReloads(force)
            /\ (fault = "reload" \/ ~EngineHas(engine, id))
        status ==
            IF RemoveReloads(force)
            THEN EngineStatus(engine, id) ELSE container_status
        seen == IF RemoveReloads(force) THEN status ELSE ""
        stops == RemoveStopsFirst(force, status)
        callsStop ==
            IF stops THEN Append(callsReload, <<"stop", id>>)
            ELSE callsReload
        eng1 == IF stops THEN EngineStop(engine, id) ELSE engine
        callsRemove == Append(callsStop, <<"remove", id, force>>)
    IN
    IF ~HasHandle(container) THEN NotFound
    ELSE IF reloadFails
    THEN Wrapped(container, container_status, current_config, engine,
                 "ContainerRemoveError", text, callsReload, "")
    ELSE IF stops /\ (fault = "stop" \/ ~EngineHas(engine, id))
    THEN Wrapped(container, status, current_config, engine,
                 "ContainerRemoveError", text, callsStop, seen)
    ELSE IF fault = "remove" \/ ~EngineHas(eng1, id)
            \/ EngineRemoveConflict(eng1, id, force)
    THEN Wrapped(container, status, current_config, eng1,
                 "ContainerRemoveError", text, callsRemove, seen)
    ELSE Outcome(RemoveClearedHandle, "", RemoveClearedConfig,
                 EngineRemove(eng1, id), nextId, "return", "", NoneVal,
                 NoMsg, callsRemove, seen, "")

(***************************************************************************)
(* ContainerManager.start                                                  *)
(***************************************************************************)
\* Mutant of StartIsNoop: start never takes the already-running return.
StartNeverNoop(status) == FALSE

\* `if self._container.status == 'running': return`
StartIsNoop(status) == status = "running"

StartRun(fault) ==
    LET id == container
        text == "Container start failed: "
        callsReload == << <<"reload", id>> >>
        status == EngineStatus(engine, id)
        callsStart == Append(callsReload, <<"start", id>>)
    IN
    IF ~HasHandle(container) THEN NotFound
    ELSE IF fault = "reload" \/ ~EngineHas(engine, id)
    THEN Wrapped(container, container_status, current_config, engine,
                 "ContainerStartError", text, callsReload, "")
    ELSE IF StartIsNoop(status)
    THEN Outcome(container, status, current_config, engine, nextId,
                 "return", "", NoneVal, NoMsg, callsReload, status, "")
    ELSE IF fault = "start"
    THEN Wrapped(container, status, current_config, engine,
                 "ContainerStartError", text, callsStart, status)
    ELSE Outcome(container, status, current_config,
                 EngineStart(engine, id), nextId, "return", "", NoneVal,
                 NoMsg, callsStart, status, "")

(***************************************************************************)
(* ContainerManager.stop                                                   *)
(***************************************************************************)
\* Mutant of StopCalls: stop re-reads the status before stopping.
StopCallsAfterReload(id) == << <<"reload", id>>, <<"stop", id>> >>

\* The engine calls of stop: `self._container.stop()` and nothing else.
StopCalls(id) == << <<"stop", id>> >>

StopRun(fault) ==
    LET id == container
        callsStop == StopCalls(id)
    IN
    IF ~HasHandle(container) THEN NotFound
    ELSE IF fault = "stop" \/ ~EngineHas(engine, id)
    THEN Wrapped(container, container_status, current_config, engine,
                 "ContainerStopError", "Container stop failed: ",
                 callsStop, "")
    ELSE Outcome(container, container_status, current_config,
                 EngineStop(engine, id), nextId, "return", "", NoneVal,
                 NoMsg, callsStop, "", "")

(***************************************************************************)
(* ContainerManager.execute                                                *)
(***************************************************************************)
\* Commands the callers run in the container.
Commands == {"echo hi", "make"}

\* What exec_run(command, demux=True) can hand back: (exit_code,
\* (stdout, stderr)), each stream bytes or None.
ExecResults ==
    [exit_code : {0, 1},
     out : {NoBytes, BytesPadded},
     err : {NoBytes, BytesErr}]

\* 'echo hi' prints hi and a newline and exits 0; other commands may end
\* in any way.
EngineExec(command) ==
    IF command = "echo hi"
    THEN {[exit_code |-> 0, out |-> BytesHi, err |-> NoBytes]}
    ELSE ExecResults

\* Stands for the answer of an exec_run or logs call that gave none.
NoExecResult == [exit_code |-> 0, out |-> NoBytes, err |-> NoBytes]

\* Mutant of ExecuteStartsFirst: execute never starts the container.
ExecuteNeverStarts(status) == FALSE

\* `if self._container.status != 'running':` start before the command.
ExecuteStartsFirst(status) == status # "running"

\* The engine runs commands only in a running container.
EngineExecRefuses(eng, id) == eng[id].status # "running"

\* `except DockerException` catches what is raised inside the try block
\* only when it is an engine exception; the manager's own error classes
\* are not.
IsDockerException(exc) == exc = "DockerException"

\* error_message = output[1].decode() if output[1] else output[0].decode()
\* None has no decode: the else branch raises AttributeError on None.
ErrorMessageRaises(out, err) == ~BytesTruthy(err) /\ out = NoBytes
ErrorMessage(out, err) ==
    IF BytesTruthy(err) THEN Decode(err) ELSE Decode(out)

\* Mutant of ExecuteResult: the output is returned as decoded.
ExecuteResultUnstripped(out) ==
    IF BytesTruthy(out) THEN Decode(out) ELSE <<>>

\* result = output[0].decode().strip() if output[0] else ''
ExecuteResult(out) == IF BytesTruthy(out) THEN Strip(Decode(out)) ELSE <<>>

\* Mutant of ExecuteStartError: a failed auto-start surfaces as the
\* error of start.
ExecuteStartErrorOfStart == "ContainerStartError"

\* The auto-start is inside execute's own try block: its DockerException
\* is wrapped like every other.
ExecuteStartError == "ContainerExecuteError"

ExecuteRun(command, res, fault) ==
    LET id == container
        text == "Command execution failed: "
        callsReload == << <<"reload", id>> >>
        status == EngineStatus(engine, id)
        starts == ExecuteStartsFirst(status)
        callsStart ==
            IF starts THEN Append(callsReload, <<"start", id>>)
            ELSE callsReload
        eng1 == IF starts THEN EngineStart(engine, id) ELSE engine
        callsExec == Append(callsStart, <<"exec", id, command>>)
        failedText == "Command failed with exit code "
    IN
    IF ~HasHandle(container) THEN NotFound
    ELSE IF fault = "reload" \/ ~EngineHas(engine, id)
    THEN Wrapped(container, container_status, current_config, engine,
                 "ContainerExecuteError", text, callsReload, "")
    ELSE IF starts /\ fault = "start"
    THEN Wrapped(container, status, current_config, engine,
                 ExecuteStartError, text, callsStart, status)
    ELSE IF fault = "exec" \/ EngineExecRefuses(eng1, id)
    THEN Wrapped(container, status, current_config, eng1,
                 "ContainerExecuteError", text, callsExec, status)
    ELSE IF res.exit_code # 0 /\ ErrorMessageRaises(res.out, res.err)
    THEN Outcome(container, status, current_config, eng1, nextId, "raise",
                 "AttributeError", NoneVal, Msg("decode", NoCode, <<>>),
                 callsExec, status, "")
    ELSE IF res.exit_code # 0
    THEN Outcome(container, status, current_config, eng1, nextId, "raise",
                 "ContainerExecuteError", NoneVal,
                 Msg(IF IsDockerException("ContainerExecuteError")
                     THEN text \o failedText ELSE failedText,
                     <<res.exit_code>>, ErrorMessage(res.out, res.err)),
                 callsExec, status, "")
    ELSE Outcome(container, status, current_config, eng1, nextId, "return",
                 "", ExecuteResult(res.out), NoMsg, callsExec, status, "")

(***************************************************************************)
(* ContainerManager.get_status / get_container_info / get_logs             *)
(***************************************************************************)
\* ContainerStatus.<member>: attribute access on the enumeration class.
HasStatusMember(member) == member \in DOMAIN ContainerStatusMembers

\* ContainerStatus(value): lookup of a member by its value.
HasStatusValue(value) ==
    \E m \in DOMAIN ContainerStatusMembers : ContainerStatusMembers[m] = value

\* `return ContainerStatus.FAILED`: raises AttributeError when the
\* enumeration has no such member.
ReturnFailed(cs, calls, faulted) ==
    IF HasStatusMember("FAILED")
    THEN Outcome(container, cs, current_config, engine, nextId, "return",
                 "", ContainerStatusMembers["FAILED"], NoMsg, calls, "",
                 faulted)
    ELSE Outcome(container, cs, current_config, engine, nextId, "raise",
                 "AttributeError", NoneVal, Msg("FAILED", NoCode, <<>>),
                 calls, "", faulted)

GetStatusRun(fault) ==
    LET id == container
        callsReload == << <<"reload", id>> >>
        status == EngineStatus(engine, id)
    IN
    IF ~HasHandle(container)
    THEN ReturnFailed(container_status, <<>>, "")
    ELSE IF fault = "reload" \/ ~EngineHas(engine, id)
    THEN ReturnFailed(container_status, callsReload, "reload")
    ELSE IF HasStatusValue(status)
    THEN Outcome(container, status, current_config, engine, nextId,
                 "return", "", status, NoMsg, callsReload, status, "")
    ELSE Outcome(container, status, current_config, engine, nextId,
                 "raise", "ValueError", NoneVal, Msg(status, NoCode, <<>>),
                 callsReload, status, "")

\* What the engine can tell about a container besides name and status:
\* the tags of its image (none when the image was untagged after the
\* container was made), and the Created, ports and NetworkSettings
\* attributes.
InfoAnswers ==
    [tags : {<<>>, <<"ubuntu:22.04">>},
     created : {"2024-01-01T00:00:00Z"},
     ports : {{<<"80/tcp", "8080">>}},
     network : {"<NetworkSettings>"}]

\* Stands for the attributes of a container the engine told nothing about.
NoInfoAnswer ==
    [tags |-> <<>>, created |-> "", ports |-> {}, network |-> ""]

\* self._container.image.tags[0] on a list: IndexError when it is empty.
TagsIndexRaises(tags) == Len(tags) = 0

\* `except DockerException as e:` logs the error and falls off the end of
\* the function.
InfoOnFault == NoneVal

GetContainerInfoRun(attrs, fault) ==
    LET id == container
        callsReload == << <<"reload", id>> >>
        callsImage == Append(callsReload, <<"image", id>>)
        status == EngineStatus(engine, id)
    IN
    IF ~HasHandle(container) THEN NotFound
    ELSE IF fault = "reload" \/ ~EngineHas(engine, id)
    THEN Outcome(container, container_status, current_config, engine,
                 nextId, "return", "", InfoOnFault, NoMsg, callsReload, "",
                 "reload")
    ELSE IF fault = "image"
    THEN Outcome(container, status, current_config, engine, nextId,
                 "return", "", InfoOnFault, NoMsg, callsImage, status,
                 "image")
    ELSE IF TagsIndexRaises(attrs.tags)
    THEN Outcome(container, status, current_config, engine, nextId,
                 "raise", "IndexError", NoneVal,
                 Msg("list index out of range", NoCode, <<>>), callsImage,
                 status, "")
    ELSE Outcome(container, status, current_config, engine, nextId,
                 "return", "",
                 [id |-> id, name |-> engine[id].name, status |-> status,
                  image |-> attrs.tags[1], created |-> attrs.created,
                  ports |-> attrs.ports, network_setting |-> attrs.network],
                 NoMsg, callsImage, status, "")

\* What container.logs() can hand back.
LogOutputs == {<<>>, BytesHi}

\* Mutant of LogsOnFault: the fault path hands back some text.
LogsOnFaultText == Decode(BytesHi)

\* `except DockerException as e: ... return ''`
LogsOnFault == <<>>

GetLogsRun(logs, fault) ==
    LET id == container
        callsLogs == << <<"logs", id>> >>
    IN
    IF ~HasHandle(container) THEN NotFound
    ELSE IF fault = "logs" \/ ~EngineHas(engine, id)
    THEN Outcome(container, container_status, current_config, engine,
                 nextId, "return", "", LogsOnFault, NoMsg, callsLogs, "",
                 "logs")
    ELSE Outcome(container, container_status, current_config, engine,
                 nextId, "return", "", Decode(logs), NoMsg, callsLogs, "",
                 "")

(***************************************************************************)
(* The package manager registry (app/container/config.py).                 *)
(***************************************************************************)
\* types.OSType and types.PackageManager: the member names.
OSTypeMembers ==
    {"UBUNTU", "DEBIAN", "CENTOS", "ALPINE", "FEDORA", "ARCHLINUX"}
PackageManagerMembers == {"APT", "YUM", "DNF", "PACMAN", "ZYPPER", "APK"}

PACKAGE_MANAGER_CONFIGS ==
    [APT |->
       [update_cmd |-> "apt update", install_cmd |-> "apt install -y",
        remove_cmd |-> "apt remove -y", upgrade_cmd |-> "apt upgrade -y",
        search_cmd |-> "apt search", list_cmd |-> "apt list",
        show_cmd |-> "apt show", clean_cmd |-> "apt clean",
        require_packages |->
          <<"apt", "apt-utils", "apt-transport-https", "ca-certificates",
            "curl", "gnupg-agent", "software-properties-common">>],
     YUM |->
       [update_cmd |-> "yum update -y", install_cmd |-> "yum install -y",
        remove_cmd |-> "yum remove -y", upgrade_cmd |-> "yum upgrade -y",
        search_cmd |-> "yum search", list_cmd |-> "yum list",
        show_cmd |-> "yum show", clean_cmd |-> "yum clean",
        require_packages |->
          <<"yum", "yum-utils", "epel-release", "python3", "python3-pip">>],
     DNF |->
       [update_cmd |-> "dnf update -y", install_cmd |-> "dnf install -y",
        remove_cmd |-> "dnf remove -y", upgrade_cmd |-> "dnf upgrade -y",
        search_cmd |-> "dnf search", list_cmd |-> "dnf list",
        show_cmd |-> "dnf show", clean_cmd |-> "dnf clean",
        require_packages |-> <<"dnf", "python3", "python3-pip">>],
     PACMAN |->
       [update_cmd |-> "pacman -Syu --noconfirm",
        install_cmd |-> "pacman -S --noconfirm",
        remove_cmd |-> "pacman -Rns --noconfirm",
        upgrade_cmd |-> "pacman -Su --noconfirm",
        search_cmd |-> "pacman -Ss", list_cmd |-> "pacman -Ql",
        show_cmd |-> "pacman -Qi", clean_cmd |-> "pacman -Sc",
        require_packages |-> <<"pacman", "python3", "python3-pip">>],
     ZYPPER |->
       [update_cmd |-> "zypper refresh",
        install_cmd |-> "zypper install -y",
        remove_cmd |-> "zypper remove -y",
        upgrade_cmd |-> "zypper update -y",
        search_cmd |-> "zypper search", list_cmd |-> "zypper list",
        show_cmd |-> "zypper info", clean_cmd |-> "zypper clean",
        require_packages |-> <<"zypper", "python3", "python3-pip">>],
     APK |->
       [update_cmd |-> "apk update", install_cmd |-> "apk add",
        remove_cmd |-> "apk del", upgrade_cmd |-> "apk upgrade",
        search_cmd |-> "apk search", list_cmd |-> "apk list",
        show_cmd |-> "apk info", clean_cmd |-> "apk cache clean",
        require_packages |-> <<"apk-tools", "python3", "python3-pip">>]]

\* Mutant of OS_PACKAGE_MANAGER_MAPPING: Arch Linux has no entry.
MappingWithoutArchLinux ==
    [UBUNTU |-> "APT", DEBIAN |-> "APT", CENTOS |-> "YUM",
     FEDORA |-> "DNF", ALPINE |-> "APK"]

OS_PACKAGE_MANAGER_MAPPING ==
    [UBUNTU |-> "APT", DEBIAN |-> "APT", CENTOS |-> "YUM",
     FEDORA |-> "DNF", ALPINE |-> "APK", ARCHLINUX |-> "PACMAN"]

\* dict.get(key): the value, or None for a key the dict does not have.
DictGet(dict, key) == IF key \in DOMAIN dict THEN dict[key] ELSE NoneVal

\* What a call of a function without engine access ends as.
Returned(value) ==
    [kind |-> "return", exc |-> "", msg |-> <<>>, value |-> value]
Raised(exc, msg) ==
    [kind |-> "raise", exc |-> exc, msg |-> msg, value |-> NoneVal]

\* ContainerConfigManager.get_package_manager
GetPackageManagerRun(os_type) ==
    LET pkg_manager_type == DictGet(OS_PACKAGE_MANAGER_MAPPING, os_type)
    IN
    IF pkg_manager_type = NoneVal
    THEN Raised("ContainerConfigError", <<"Unsupported OS type: ", os_type>>)
    ELSE IF pkg_manager_type \notin DOMAIN PACKAGE_MANAGER_CONFIGS
    THEN Raised("KeyError", <<pkg_manager_type>>)
    ELSE Returned(PACKAGE_MANAGER_CONFIGS[pkg_manager_type])

(***************************************************************************)
(* Specs and documents (app/container/types.py, config.py).                *)
(*                                                                         *)
(* A Python scalar is a string of the model: a str is itself, None is      *)
(* NoneVal, the float 22.04 is "<float 22.04>", the int 1 is "<int 1>".    *)
(* A Dict[str, str] is a set of <<key, value>> pairs, and None in such a   *)
(* field is NoneMap.                                                       *)
(***************************************************************************)
NoneMap == {<<NoneVal, NoneVal>>}
NumberValues == {"<float 22.04>", "<int 1>"}

\* Python truthiness of a scalar field and of a mapping field.
Truthy(v) == v # NoneVal /\ v # ""
MapTruthy(m) == m # NoneMap /\ m # {}

IsStr(v) == v # NoneVal /\ v \notin NumberValues

ScalarFields == {"os_type", "os_version", "name", "working_dir", "command"}
MapFields == {"volumes", "environment"}
OptionalScalars == {"name", "working_dir", "command"}

\* The dataclass defaults of ContainerConfig: every field but os_type
\* defaults to None.
FieldDefault(field) == IF field \in MapFields THEN NoneMap ELSE NoneVal

\* ContainerConfig(**kwargs): the keyword arguments given, the dataclass
\* default for the others.
ContainerConfig(kwargs) ==
    [field \in ScalarFields \cup MapFields |->
        IF field \in DOMAIN kwargs THEN kwargs[field]
        ELSE FieldDefault(field)]

\* Mutant of Upper: the string is looked up as it was written.
UpperAsWritten(s) == s

\* str.upper() and str.lower() on the strings of the model.
Upper(s) ==
    CASE s \in {"ubuntu", "Ubuntu", "uBuNtU"} -> "UBUNTU"
      [] s = "debian" -> "DEBIAN"
      [] s = "centos" -> "CENTOS"
      [] s \in {"alpine", "Alpine"} -> "ALPINE"
      [] s = "fedora" -> "FEDORA"
      [] s \in {"archlinux", "ArchLinux"} -> "ARCHLINUX"
      [] s = "bogus" -> "BOGUS"
      [] s = "invalid_os" -> "INVALID_OS"
      [] s = "arch" -> "ARCH"
      [] OTHER -> s
Lower(s) ==
    CASE s = "UBUNTU" -> "ubuntu"
      [] s = "DEBIAN" -> "debian"
      [] s = "CENTOS" -> "centos"
      [] s = "ALPINE" -> "alpine"
      [] s = "FEDORA" -> "fedora"
      [] s = "ARCHLINUX" -> "archlinux"
      [] OTHER -> s

\* Mutant of OSTypeByName: an unknown name is taken for Ubuntu.
OSTypeByNameLenient(name) ==
    IF name \in OSTypeMembers THEN name ELSE "UBUNTU"

\* OSType[name]: the member of that name; NoneVal stands for KeyError.
OSTypeByName(name) == IF name \in OSTypeMembers THEN name ELSE NoneVal

(***************************************************************************)
(* Documents.  config_data, the value yaml.safe_load returns, is           *)
(* [kind, items, has]: a mapping (items: key -> value), a list or a str    *)
(* (has: the keys that `key in config_data` finds in it), or None.         *)
(***************************************************************************)
MappingDoc(items) ==
    [kind |-> "mapping", items |-> items, has |-> DOMAIN items]
OtherDoc(kind, has) == [kind |-> kind, items |-> <<>>, has |-> has]

\* `key in config_data`; TypeError on None is the caller's case.
Contains(doc, key) == key \in doc.has

\* `except Exception` catches the error classes of the component as well
\* as Python's own.
IsException(exc) ==
    exc \in {"ContainerConfigError", "TypeError", "AttributeError",
             "KeyError", "OSError"}

\* Mutant of ParseOptional: optional scalars are not read.
ParseOptionalDropped(items, key) == NoneVal

\* config_data.get('name')
ParseOptional(items, key) == DictGet(items, key)

\* config_data.get('volumes', {})
ParseMap(items, key) == IF key \in DOMAIN items THEN items[key] ELSE {}

\* The body of the try block of _parse_config.
ParseConfigBody(doc) ==
    IF doc.kind = "none"
    THEN Raised("TypeError",
                <<"argument of type 'NoneType' is not iterable">>)
    ELSE IF ~Contains(doc, "os_type") \/ ~Contains(doc, "os_version")
    THEN Raised("ContainerConfigError",
                <<"Missing required fields: os_type and os_version">>)
    ELSE IF doc.kind # "mapping"
    THEN Raised("TypeError", <<"indices must be integers">>)
    ELSE IF ~IsStr(doc.items["os_type"])
    THEN Raised("AttributeError", <<"object has no attribute 'upper'">>)
    ELSE IF OSTypeByName(Upper(doc.items["os_type"])) = NoneVal
    THEN Raised("ContainerConfigError",
                <<"Unsupported OS type: ", doc.items["os_type"]>>)
    ELSE Returned(
           [os_type |-> OSTypeByName(Upper(doc.items["os_type"])),
            os_version |-> doc.items["os_version"],
            name |-> ParseOptional(doc.items, "name"),
            volumes |-> ParseMap(doc.items, "volumes"),
            environment |-> ParseMap(doc.items, "environment"),
            working_dir |-> ParseOptional(doc.items, "working_dir"),
            command |-> ParseOptional(doc.items, "command")])

\* ContainerConfigManager._parse_config: `except Exception as e: raise
\* ContainerConfigError(f'Error parsing config: {e}')`.
ParseConfigRun(doc) ==
    LET r == ParseConfigBody(doc)
    IN
    IF r.kind = "raise" /\ IsException(r.exc)
    THEN Raised("ContainerConfigError",
                <<"Error parsing config: ">> \o r.msg)
    ELSE r

(***************************************************************************)
(* YAML, as yaml.safe_dump writes a scalar and yaml.safe_load reads it: a  *)
(* node is [style, text].  A plain scalar is resolved by its text (null,   *)
(* numbers); a quoted one is always a str.                                 *)
(***************************************************************************)
PlainResolve(text) ==
    CASE text \in {"null", "~", ""} -> NoneVal
      [] text = "22.04" -> "<float 22.04>"
      [] text = "1" -> "<int 1>"
      [] OTHER -> text

YamlNode(style, text) == [style |-> style, text |-> text]

\* safe_dump of a scalar: a str whose plain form would be read back as
\* something else is quoted.
YamlRepresent(v) ==
    CASE v = NoneVal -> YamlNode("plain", "null")
      [] v = "<float 22.04>" -> YamlNode("plain", "22.04")
      [] v = "<int 1>" -> YamlNode("plain", "1")
      [] OTHER ->
           IF PlainResolve(v) # v THEN YamlNode("quoted", v)
           ELSE YamlNode("plain", v)

\* safe_load of a scalar node.
YamlConstruct(node) ==
    IF node.style = "quoted" THEN node.text ELSE PlainResolve(node.text)

\* safe_dump and safe_load of config_data.
YamlDumpDoc(doc) ==
    IF doc.kind # "mapping" THEN doc
    ELSE MappingDoc(
           [key \in DOMAIN doc.items |->
              IF key \in MapFields
              THEN {<<YamlRepresent(pair[1]), YamlRepresent(pair[2])>> :
                      pair \in doc.items[key]}
              ELSE YamlRepresent(doc.items[key])])
YamlLoadDoc(ydoc) ==
    IF ydoc.kind # "mapping" THEN ydoc
    ELSE MappingDoc(
           [key \in DOMAIN ydoc.items |->
              IF key \in MapFields
              THEN {<<YamlConstruct(pair[1]), YamlConstruct(pair[2])>> :
                      pair \in ydoc.items[key]}
              ELSE YamlConstruct(ydoc.items[key])])

\* The configuration file: missing, not YAML, or a YAML document; `of` is
\* <<config>> when save_to_file wrote it from config, <<>> otherwise.
FileOf(kind, doc, of) == [kind |-> kind, doc |-> doc, of |-> of]
NoFile == FileOf("missing", OtherDoc("none", {}), <<>>)

(***************************************************************************)
(* ContainerConfigManager.save_to_file and load_from_file.                 *)
(***************************************************************************)
\* Mutant of SaveEmits: every optional field is written.
SaveEmitsAlways(config, field) == TRUE

\* `if config.name:` and the like.
SaveEmits(config, field) ==
    IF field \in MapFields THEN MapTruthy(config[field])
    ELSE Truthy(config[field])

\* config_data as save_to_file builds it.
SaveData(config) ==
    MappingDoc(
      [key \in {"os_type", "os_version"}
                 \cup {field \in OptionalScalars \cup MapFields :
                         SaveEmits(config, field)} |->
         IF key = "os_type" THEN Lower(config.os_type) ELSE config[key]])

\* What save_to_file ends as; `writable` is whether open(path, 'w') works.
SaveToFileRun(config, writable) ==
    IF ~writable /\ IsException("OSError")
    THEN Raised("ContainerConfigError",
                <<"Error saving config: ", "No such file or directory">>)
    ELSE IF ~writable
    THEN Raised("OSError", <<"No such file or directory">>)
    ELSE Returned(NoneVal)

\* The file after save_to_file.
SaveToFileWrites(config, writable) ==
    IF writable
    THEN FileOf("yaml", YamlDumpDoc(SaveData(config)), <<config>>)
    ELSE file

LoadFromFileRun ==
    IF file.kind = "missing"
    THEN Raised("ContainerConfigError",
                <<"Config file for container not found: ">>)
    ELSE IF file.kind = "invalid"
    THEN Raised("ContainerConfigError", <<"Invalid YAML format: ">>)
    ELSE ParseConfigRun(YamlLoadDoc(file.doc))

(***************************************************************************)
(* ContainerManager's package operations (manager.py, update_packages to   *)
(* clean_package_cache).                                                   *)
(***************************************************************************)
PackageVerbs ==
    {"update_packages", "install_package", "remove_package",
     "search_package", "list_installed_packages", "clean_package_cache"}

\* The verbs whose method takes the caller's argument.
TakesArgument(verb) ==
    verb \in {"install_package", "remove_package", "search_package"}

\* The verbs whose method returns what execute returned.
ReturnsOutput(verb) ==
    verb \in {"search_package", "list_installed_packages"}

\* The template field each method reads from the profile.
TemplateOf(pkg_manager, verb) ==
    CASE verb = "update_packages" -> pkg_manager.update_cmd
      [] verb = "install_package" -> pkg_manager.install_cmd
      [] verb = "remove_package" -> pkg_manager.remove_cmd
      [] verb = "search_package" -> pkg_manager.search_cmd
      [] verb = "list_installed_packages" -> pkg_manager.list_cmd
      [] verb = "clean_package_cache" -> pkg_manager.clean_cmd

\* Mutant of FormatWithArgument: the argument is glued to the template.
FormatWithoutSpace(template, argument) == template \o argument

\* f"{pkg_manager.install_cmd} {package_name}"
FormatWithArgument(template, argument) == template \o " " \o argument

PackageCommand(pkg_manager, verb, argument) ==
    IF TakesArgument(verb)
    THEN FormatWithArgument(TemplateOf(pkg_manager, verb), argument)
    ELSE TemplateOf(pkg_manager, verb)

\* Mutant of ConfigBound: the bound-spec guard is missing.
AlwaysConfigBound(cfg) == TRUE

\* `if not self._current_config`
ConfigBound(cfg) == cfg # <<>>

\* ContainerManager._get_package_manager.  Without the guard, None has no
\* os_type.
CurrentPackageManager ==
    IF ~ConfigBound(current_config)
    THEN Raised("ContainerError", <<"No configuration available">>)
    ELSE IF current_config = <<>>
    THEN Raised("AttributeError", <<"os_type">>)
    ELSE GetPackageManagerRun(current_config[1].os_type)

\* The command the method hands to execute, NoneVal when it raises before.
PackageHands(verb, argument) ==
    IF CurrentPackageManager.kind = "raise" THEN NoneVal
    ELSE PackageCommand(CurrentPackageManager.value, verb, argument)

\* One package method: resolve the profile, format, execute.
PackageRun(verb, argument, res, fault) ==
    LET pm == CurrentPackageManager
        r == ExecuteRun(PackageHands(verb, argument), res, fault)
    IN
    IF pm.kind = "raise"
    THEN Outcome(container, container_status, current_config, engine,
                 nextId, "raise", pm.exc, NoneVal,
                 Msg(pm.msg[1], NoCode, <<>>), <<>>, "", "")
    ELSE IF r.kind = "return" /\ ~ReturnsOutput(verb)
    THEN [r EXCEPT !.value = NoneVal]
    ELSE r

(***************************************************************************)
(* PackageManager: the standalone class, built with a spec of its own and  *)
(* handing its commands to the container manager's execute.                *)
(***************************************************************************)
\* PackageManager._get_package_manager; cfg is its self._current_config.
StandalonePackageManager(cfg) ==
    IF cfg = <<>>
    THEN Raised("ContainerError", <<"No configuration available">>)
    ELSE GetPackageManagerRun(cfg[1].os_type)

\* The template field each method of the class reads.
StandaloneTemplateOf(pkg_manager, verb) ==
    CASE verb = "update_packages" -> pkg_manager.update_cmd
      [] verb = "install_package" -> pkg_manager.install_cmd
      [] verb = "remove_package" -> pkg_manager.remove_cmd
      [] verb = "search_package" -> pkg_manager.search_cmd
      [] verb = "list_installed_packages" -> pkg_manager.list_cmd
      [] verb = "clean_package_cache" -> pkg_manager.clean_cmd

\* Mutant of StandaloneFormat: the argument is glued to the template.
StandaloneFormatWithoutSpace(template, argument) == template \o argument

\* f"{pkg_manager.install_cmd} {package_name}"
StandaloneFormat(template, argument) == template \o " " \o argument

\* The command the method hands to execute, NoneVal when it raises before.
StandaloneHands(cfg, verb, argument) ==
    LET pm == StandalonePackageManager(cfg) IN
    IF pm.kind = "raise" THEN NoneVal
    ELSE IF verb \in {"install_package", "remove_package", "search_package"}
    THEN StandaloneFormat(StandaloneTemplateOf(pm.value, verb), argument)
    ELSE StandaloneTemplateOf(pm.value, verb)

\* One method of the class: resolve the profile, format, and call
\* self._container_manager.execute; search and list return its value.
StandaloneRun(cfg, verb, argument, res, fault) ==
    LET pm == StandalonePackageManager(cfg)
        r == ExecuteRun(StandaloneHands(cfg, verb, argument), res, fault)
    IN
    IF pm.kind = "raise"
    THEN Outcome(container, container_status, current_config, engine,
                 nextId, "raise", pm.exc, NoneVal,
                 Msg(pm.msg[1], NoCode, <<>>), <<>>, "", "")
    ELSE IF r.kind = "return"
            /\ verb \notin {"search_package", "list_installed_packages"}
    THEN [r EXCEPT !.value = NoneVal]
    ELSE r

\* Arguments the callers give to install, remove and search.
PackageArguments == {"curl"}

\* What the engine answers to a package command: success with output, or
\* failure with a message on stderr.
PackageExecResults ==
    {[exit_code |-> 0, out |-> BytesPadded, err |-> NoBytes],
     [exit_code |-> 1, out |-> NoBytes, err |-> BytesErr]}

(***************************************************************************)
(* The state machine.                                                      *)
(***************************************************************************)
\* The engine before the manager is built: empty, or holding one container
\* somebody else made.
InitialEngines ==
    {[id \in Ids |-> Absent]}
    \cup {[id \in Ids |->
              IF id = 1
              THEN [present |-> TRUE, name |-> "t1", status |-> st]
              ELSE Absent] : st \in EngineStatuses}

NoInvocation ==
    [op |-> "init", arg |-> NoneVal, input |-> NoneVal, kind |-> "return",
     exc |-> "", value |-> NoneVal, msg |-> NoMsg, calls |-> <<>>,
     seen_status |-> "", faulted |-> "", command |-> NoneVal,
     pre_container |-> NoHandle, pre_bound |-> FALSE,
     pre_status |-> "", pre_cached |-> "", same_config |-> TRUE]

\* The walk-through of spec section 8: the spec {Ubuntu, 22.04, t1} is
\* created, started, runs 'echo hi' and is removed, against an engine that
\* has no container named t1 and does not fault.
ScenarioConfig ==
    [os_type |-> "UBUNTU", os_version |-> "22.04", name |-> "t1",
     volumes |-> {}]

ScenarioNext(op, arg, r) ==
    IF r.faulted # "" THEN "off"
    ELSE IF scen = "begin" /\ op = "create" /\ arg = ScenarioConfig
    THEN "created"
    ELSE IF scen = "created" /\ last.kind = "return" /\ op = "start"
    THEN "started"
    ELSE IF scen = "started" /\ last.kind = "return" /\ op = "execute"
            /\ arg = "echo hi"
    THEN "executed"
    ELSE IF scen = "executed" /\ last.kind = "return" /\ op = "remove"
            /\ arg = FALSE
    THEN "removed"
    ELSE "off"

\* ContainerManager.__init__: no handle, no bound spec.
Init ==
    /\ engine \in InitialEngines
    /\ nextId = IF engine[1].present THEN 2 ELSE 1
    /\ container = NoHandle
    /\ container_status = ""
    /\ current_config = <<>>
    /\ last = NoInvocation
    /\ file = NoFile
    /\ scen = IF EngineList(engine, "t1") = {} THEN "begin" ELSE "off"
    /\ docker_settings = InitialDockerSettings
    /\ client = ClientFromEnv(docker_settings.held)
    /\ pc = NoMain
    /\ CoreUntouched

\* The live status of the held container when the invocation begins.
LiveStatus ==
    IF EngineHas(engine, container) THEN engine[container].status ELSE ""

\* The invocation op(arg), to which the engine answered `input`, ended as
\* `r`; `command` is what it handed to execute (NoneVal when it did not
\* get that far).  The engine has MaxIds ids to give, and only a manager
\* that was built can be invoked.
Invoked(op, arg, command, input, r) ==
    /\ client # <<>>
    /\ r.nextId <= MaxIds + 1
    /\ engine' = r.engine
    /\ nextId' = r.nextId
    /\ container' = r.container
    /\ container_status' = r.container_status
    /\ current_config' = r.current_config
    /\ last' =
         [op |-> op, arg |-> arg, input |-> input, kind |-> r.kind,
          exc |-> r.exc, value |-> r.value, msg |-> r.msg,
          calls |-> r.calls, seen_status |-> r.seen_status,
          faulted |-> r.faulted, command |-> command,
          pre_container |-> container,
          pre_bound |-> (current_config # <<>>),
          pre_status |-> LiveStatus,
          pre_cached |-> container_status,
          same_config |-> (r.current_config = current_config)]
    /\ file' = file
    /\ scen' = ScenarioNext(op, arg, r)
    /\ docker_settings' = docker_settings
    /\ client' = OperationClient(client, docker_settings.held)
    /\ UNCHANGED <<services, factories, invocations, registered,
                   use_sudo, sudo_user>>

\* An invocation made by a caller other than main.
FinishCommand(op, arg, command, input, r) ==
    /\ Invoked(op, arg, command, input, r)
    /\ pc' = pc

Finish(op, arg, input, r) ==
    FinishCommand(op, arg, IF op = "execute" THEN arg ELSE NoneVal, input, r)

Create ==
    \E config \in Configs, fault \in {"none", "list", "pull", "create"} :
        Finish("create", config, NoneVal, CreateRun(config, fault))

Remove ==
    \E force \in BOOLEAN, fault \in {"none", "reload", "stop", "remove"} :
        Finish("remove", force, NoneVal, RemoveRun(force, fault))

Start ==
    \E fault \in {"none", "reload", "start"} :
        Finish("start", NoneVal, NoneVal, StartRun(fault))

Stop ==
    \E fault \in {"none", "stop"} :
        Finish("stop", NoneVal, NoneVal, StopRun(fault))

\* The engine call `k` of the invocation that ended as `r` gave an answer.
Answered(r, k) ==
    r.faulted = "" /\ \E i \in 1..Len(r.calls) : r.calls[i][1] = k

Execute ==
    \E command \in Commands, fault \in {"none", "reload", "start", "exec"} :
        \E res \in
              IF Answered(ExecuteRun(command, NoExecResult, fault), "exec")
              THEN EngineExec(command) ELSE {NoExecResult} :
            Finish("execute", command, res,
                   ExecuteRun(command, res, fault))

GetStatus ==
    \E fault \in {"none", "reload"} :
        Finish("get_status", NoneVal, NoneVal, GetStatusRun(fault))

GetContainerInfo ==
    \E fault \in {"none", "reload", "image"} :
        \E attrs \in
              IF Answered(GetContainerInfoRun(NoInfoAnswer, fault), "image")
              THEN InfoAnswers ELSE {NoInfoAnswer} :
            Finish("get_container_info", NoneVal, attrs,
                   GetContainerInfoRun(attrs, fault))

GetLogs ==
    \E fault \in {"none", "logs"} :
        \E logs \in
              IF Answered(GetLogsRun(<<>>, fault), "logs")
              THEN LogOutputs ELSE {<<>>} :
            Finish("get_logs", NoneVal, logs, GetLogsRun(logs, fault))

Next ==
    \/ Create
    \/ Remove
    \/ Start
    \/ Stop
    \/ Execute
    \/ GetStatus
    \/ GetContainerInfo
    \/ GetLogs

Spec == Init /\ [][Next]_vars

(***************************************************************************)
(* The package operations on a manager whose spec may be of any OS family. *)
(***************************************************************************)
\* One spec per OS family, each with a volume mapping.
FamilyConfigs ==
    [os_type : OSTypeMembers,
     os_version : {"latest"},
     name : {"t1"},
     volumes : {{<<"/out", "/app/output">>}}]

\* A manager just built, against an engine that holds no container.
InitPackage ==
    /\ engine = [id \in Ids |-> Absent]
    /\ nextId = 1
    /\ container = NoHandle
    /\ container_status = ""
    /\ current_config = <<>>
    /\ last = NoInvocation
    /\ file = NoFile
    /\ scen = "off"
    /\ docker_settings = InitialDockerSettings
    /\ client = ClientFromEnv(docker_settings.held)
    /\ pc = NoMain
    /\ CoreUntouched

CreateFamily ==
    \E config \in FamilyConfigs, fault \in {"none", "pull"} :
        Finish("create", config, NoneVal, CreateRun(config, fault))

PackageOp ==
    \E verb \in PackageVerbs,
       fault \in {"none", "reload", "start", "exec"} :
        \E argument \in
              IF TakesArgument(verb) THEN PackageArguments ELSE {NoneVal} :
            \E res \in
                  IF Answered(PackageRun(verb, argument, NoExecResult,
                                         fault), "exec")
                  THEN PackageExecResults ELSE {NoExecResult} :
                FinishCommand(verb, argument, PackageHands(verb, argument),
                              res, PackageRun(verb, argument, res, fault))

\* A PackageManager built with no spec, or with the spec the container
\* manager has bound, runs one of its methods.
StandalonePackageOp ==
    \E verb \in PackageVerbs, cfg \in {<<>>, current_config},
       fault \in {"none", "reload", "start", "exec"} :
        \E argument \in
              IF TakesArgument(verb) THEN PackageArguments ELSE {NoneVal} :
            \E res \in
                  IF Answered(StandaloneRun(cfg, verb, argument,
                                            NoExecResult, fault), "exec")
                  THEN PackageExecResults ELSE {NoExecResult} :
                FinishCommand("PackageManager",
                              [config |-> cfg, verb |-> verb,
                               argument |-> argument],
                              StandaloneHands(cfg, verb, argument), res,
                              StandaloneRun(cfg, verb, argument, res,
                                            fault))

NextPackage ==
    \/ CreateFamily
    \/ PackageOp
    \/ StandalonePackageOp
    \/ Stop
    \/ Remove

PackageSpec == InitPackage /\ [][NextPackage]_vars

(***************************************************************************)
(* The configuration functions: parse, save, load, registry lookup and     *)
(* spec construction, on a manager that is left alone.                     *)
(***************************************************************************)
\* YAML documents somebody wrote by hand.
HandWrittenYaml ==
    {MappingDoc([os_type |-> YamlNode("plain", "ubuntu"),
                 os_version |-> YamlNode("plain", "22.04")]),
     MappingDoc([os_type |-> YamlNode("plain", "bogus"),
                 os_version |-> YamlNode("quoted", "1")]),
     MappingDoc([os_type |-> YamlNode("plain", "invalid_os"),
                 os_version |-> YamlNode("quoted", "22.04")]),
     MappingDoc([os_type |-> YamlNode("plain", "arch"),
                 os_version |-> YamlNode("plain", "latest"),
                 name |-> YamlNode("plain", "t1")]),
     MappingDoc([name |-> YamlNode("plain", "test")]),
     MappingDoc([os_type |-> YamlNode("plain", "bogus")]),
     MappingDoc([os_version |-> YamlNode("quoted", "22.04")]),
     MappingDoc([os_type |-> YamlNode("plain", "Ubuntu"),
                 os_version |-> YamlNode("plain", "")]),
     MappingDoc([os_type |-> YamlNode("plain", "1"),
                 os_version |-> YamlNode("quoted", "1")]),
     MappingDoc([os_type |-> YamlNode("plain", "ArchLinux"),
                 os_version |-> YamlNode("plain", "latest"),
                 name |-> YamlNode("plain", "t1"),
                 environment |->
                   {<<YamlNode("plain", "TEST"), YamlNode("quoted", "1")>>},
                 working_dir |-> YamlNode("plain", "/app")]),
     MappingDoc([os_type |-> YamlNode("plain", "UBUNTU"),
                 os_version |-> YamlNode("quoted", "22.04")]),
     MappingDoc([os_type |-> YamlNode("plain", "uBuNtU"),
                 os_version |-> YamlNode("quoted", "22.04")]),
     MappingDoc([os_type |-> YamlNode("plain", "Alpine"),
                 os_version |-> YamlNode("quoted", "3.19")]),
     OtherDoc("none", {}),
     OtherDoc("list", {}),
     OtherDoc("list", {"os_type", "os_version"}),
     OtherDoc("str", {"os_type", "os_version"})}

\* The configuration file before the program touches it.
InitialFiles ==
    {NoFile, FileOf("invalid", OtherDoc("none", {}), <<>>)}
    \cup {FileOf("yaml", ydoc, <<>>) : ydoc \in HandWrittenYaml}

\* Values of config_data handed to _parse_config.
Documents == {YamlLoadDoc(ydoc) : ydoc \in HandWrittenYaml}

\* Specs handed to save_to_file.
SaveConfigs ==
    [os_type : {"UBUNTU", "ARCHLINUX"},
     os_version : {"22.04"},
     name : {NoneVal, "", "t1"},
     volumes : {NoneMap, {}, {<<"/out", "/app/output">>}},
     environment : {NoneMap, {<<"TEST", "1">>}},
     working_dir : {NoneVal, "/app"},
     command : {NoneVal}]
    \cup [os_type : {"ALPINE"},
          os_version : {NoneVal, "latest"},
          name : {"t1"},
          volumes : {NoneMap},
          environment : {{}},
          working_dir : {""},
          command : {"sleep 1"}]

\* Keyword arguments a caller may give ContainerConfig besides os_type.
OptionalKwargs ==
    {"os_version", "name", "volumes", "environment", "working_dir"}
KwargValue(field) ==
    CASE field = "os_type" -> "UBUNTU"
      [] field = "os_version" -> "22.04"
      [] field = "name" -> "test-container"
      [] field = "volumes" -> {<<"/out", "/app/output">>}
      [] field = "environment" -> {<<"TEST", "value">>}
      [] field = "working_dir" -> "/app"

InitConfig ==
    /\ engine = [id \in Ids |-> Absent]
    /\ nextId = 1
    /\ container = NoHandle
    /\ container_status = ""
    /\ current_config = <<>>
    /\ last = NoInvocation
    /\ file \in InitialFiles
    /\ scen = "off"
    /\ docker_settings = InitialDockerSettings
    /\ client = ClientFromEnv(docker_settings.held)
    /\ pc = NoMain
    /\ CoreUntouched

\* The call op(arg) of a configuration function ended as `r` and left the
\* file as `written`; the manager is not involved.
FinishPure(op, arg, input, r, written) ==
    /\ last' = [NoInvocation EXCEPT !.op = op, !.arg = arg,
                                    !.input = input, !.kind = r.kind,
                                    !.exc = r.exc, !.value = r.value,
                                    !.msg = r.msg]
    /\ file' = written
    /\ UNCHANGED <<engine, nextId, container, container_status,
                   current_config, scen, docker_settings, client, pc,
                   services, factories, invocations, registered,
                   use_sudo, sudo_user>>

ParseConfig ==
    \E doc \in Documents :
        FinishPure("parse_config", doc, NoneVal, ParseConfigRun(doc), file)

\* load_from_file; the record keeps the value safe_load returned.
LoadFromFile ==
    FinishPure("load_from_file",
               IF file.kind = "yaml" THEN YamlLoadDoc(file.doc)
               ELSE OtherDoc(file.kind, {}),
               NoneVal, LoadFromFileRun, file)

SaveToFile ==
    \E config \in SaveConfigs, writable \in BOOLEAN :
        FinishPure("save_to_file", config, writable,
                   SaveToFileRun(config, writable),
                   SaveToFileWrites(config, writable))

GetPackageManager ==
    \E os_type \in OSTypeMembers :
        FinishPure("get_package_manager", os_type, NoneVal,
                   GetPackageManagerRun(os_type), file)

NewContainerConfig ==
    \E given \in SUBSET OptionalKwargs :
        FinishPure("ContainerConfig", given, NoneVal,
                   Returned(ContainerConfig(
                              [field \in given \cup {"os_type"} |->
                                 KwargValue(field)])),
                   file)

NextConfig ==
    \/ ParseConfig
    \/ LoadFromFile
    \/ SaveToFile
    \/ GetPackageManager
    \/ NewContainerConfig

ConfigSpec == InitConfig /\ [][NextConfig]_vars

(***************************************************************************)
(* Engine settings: the config manager hands them out and replaces them,   *)
(* a manager is built from them, and the manager is then used.             *)
(***************************************************************************)
\* Settings values the callers pass to update_docker_settings.
SettingsChoices ==
    {DockerSettings(<<>>),
     DockerSettings([timeout |-> 30]),
     DockerSettings([socket_path |-> "tcp://localhost:2375",
                     api_version |-> "1.41", timeout |-> 60,
                     tls |-> TRUE, cert_path |-> "/path/to/cert"])}

\* get_docker_settings: return self._docker_settings
GetDockerSettingsRun(held) == held

\* Mutant of UpdateDockerSettingsRun: a certificate path the new value
\* does not give is kept from the old one.
UpdateKeepsCertificate(held, settings) ==
    [settings EXCEPT !.cert_path =
        IF settings.cert_path = NoneVal THEN held.cert_path
        ELSE settings.cert_path]

\* update_docker_settings: self._docker_settings = settings
UpdateDockerSettingsRun(held, settings) == settings

\* Mutant of InitFails: the DockerException of from_env is swallowed.
InitNeverFails(connects) == FALSE

\* `except DockerException as e:` around docker.from_env
InitFails(connects) == ~connects

\* ContainerManager.__init__ up to the end of its try block.
ConstructRun(connects) ==
    IF InitFails(connects)
    THEN Outcome(NoHandle, "", <<>>, engine, nextId, "raise",
                 "ContainerError", NoneVal,
                 Msg("Docker initialization failed: ", NoCode, <<>>),
                 << <<"from_env">> >>, "", "from_env")
    ELSE Outcome(NoHandle, "", <<>>, engine, nextId, "return", "", NoneVal,
                 NoMsg, << <<"from_env">> >>, "", "")

\* Nothing is built yet: the config manager exists, the manager does not.
InitSettings ==
    /\ engine = [id \in Ids |-> Absent]
    /\ nextId = 1
    /\ container = NoHandle
    /\ container_status = ""
    /\ current_config = <<>>
    /\ last = NoInvocation
    /\ file = NoFile
    /\ scen = "off"
    /\ docker_settings = InitialDockerSettings
    /\ client = <<>>
    /\ pc = NoMain
    /\ CoreUntouched

\* ContainerManager(console, config_manager); `connects` is whether the
\* engine can be reached.  A manager whose construction raised does not
\* exist.
Construct ==
    /\ client = <<>>
    /\ \E connects \in BOOLEAN :
         LET r == ConstructRun(connects) IN
         /\ last' = [NoInvocation EXCEPT !.op = "__init__",
                                         !.input = connects,
                                         !.kind = r.kind, !.exc = r.exc,
                                         !.msg = r.msg, !.calls = r.calls,
                                         !.faulted = r.faulted]
         /\ client' = IF r.kind = "return"
                      THEN ClientFromEnv(docker_settings.held) ELSE <<>>
         /\ container' = r.container
         /\ container_status' = r.container_status
         /\ current_config' = r.current_config
    /\ UNCHANGED <<engine, nextId, file, scen, docker_settings, pc,
                   services, factories, invocations, registered,
                   use_sudo, sudo_user>>

UpdateDockerSettings ==
    /\ \E settings \in SettingsChoices :
         /\ docker_settings' =
              [held |-> UpdateDockerSettingsRun(docker_settings.held,
                                                settings),
               passed |-> <<settings>>]
         /\ last' = [NoInvocation EXCEPT !.op = "update_docker_settings",
                                         !.arg = settings]
    /\ UNCHANGED <<engine, nextId, container, container_status,
                   current_config, file, scen, client, pc,
                   services, factories, invocations, registered,
                   use_sudo, sudo_user>>

GetDockerSettings ==
    /\ last' = [NoInvocation EXCEPT
                  !.op = "get_docker_settings",
                  !.value = GetDockerSettingsRun(docker_settings.held)]
    /\ UNCHANGED <<engine, nextId, container, container_status,
                   current_config, file, scen, docker_settings, client, pc,
                   services, factories, invocations, registered,
                   use_sudo, sudo_user>>

NextSettings ==
    \/ Construct
    \/ UpdateDockerSettings
    \/ GetDockerSettings
    \/ CreateFamily
    \/ Start
    \/ Remove
    \/ GetStatus

SettingsSpec == InitSettings /\ [][NextSettings]_vars

(***************************************************************************)
(* main: a spec is created, started, provisioned and inspected inside a    *)
(* try block whose finally clause removes the container.                   *)
(***************************************************************************)
\* The spec main builds ('test-container' is t1 here).
MainConfig ==
    [os_type |-> "UBUNTU", os_version |-> "22.04", name |-> "t1",
     volumes |-> {<<"/out", "/app/output">>}]

\* How many manager calls the try block makes.
MainLength == 10

\* The manager method the try block calls at each step, and its argument.
MainOp(step) ==
    CASE step = 1 -> "create"
      [] step = 2 -> "start"
      [] step = 3 -> "update_packages"
      [] step \in {4, 5} -> "install_package"
      [] step \in 6..9 -> "execute"
      [] step = 10 -> "get_container_info"

MainArg(step) ==
    CASE step = 4 -> "squashfs-tools"
      [] step = 5 -> "linux-image-generic"
      [] step = 6 -> "update-initramfs -c -k all"
      [] step = 7 ->
           "cp /boot/initrd.img-5.15.0-134-generic /app/output/initrd.img"
      [] step = 8 ->
           "cp /boot/vmlinuz-5.15.0-134-generic /app/output/vmlinuz"
      [] step = 9 ->
           "mksquashfs / /app/output/filesystem.squashfs -comp xz -b 1M"
      [] OTHER -> NoneVal

\* The engine calls that can fault during main.
MainFaults ==
    {"none", "list", "pull", "create", "reload", "start", "exec", "image"}

\* The call of one step, to which the engine answered `res` (exec_run) or
\* `attrs` (container attributes).
MainRun(step, res, attrs, fault) ==
    CASE step = 1 -> CreateRun(MainConfig, fault)
      [] step = 2 -> StartRun(fault)
      [] step \in 3..5 ->
           PackageRun(MainOp(step), MainArg(step), res, fault)
      [] step \in 6..9 -> ExecuteRun(MainArg(step), res, fault)
      [] step = 10 -> GetContainerInfoRun(attrs, fault)

\* The command the step hands to execute.
MainCommand(step) ==
    CASE step \in 3..5 -> PackageHands(MainOp(step), MainArg(step))
      [] step \in 6..9 -> MainArg(step)
      [] OTHER -> NoneVal

\* The exception that leaves the step, "" when none does.  After
\* get_container_info main iterates over container_info.items(), which
\* None (the value after an engine fault) does not have.
MainRaised(step, r) ==
    IF r.kind = "raise" THEN r.exc
    ELSE IF step = MainLength /\ r.faulted # "" THEN "AttributeError"
    ELSE ""

\* The classes `except ContainerError` catches: the component's errors
\* all derive from ContainerError.
IsContainerError(exc) ==
    exc \in {"ContainerError", "ContainerNotFoundError",
             "ContainerCreateError", "ContainerStartError",
             "ContainerStopError", "ContainerRemoveError",
             "ContainerExecuteError", "ContainerConfigError"}

\* The classes of app.core.exceptions, all derived from ApplicationError.
IsApplicationError(exc) ==
    exc \in {"ApplicationError", "InitializationError",
             "ProjectRootNotFoundError", "ConfigurationError",
             "ServiceNotFoundError", "StateError", "CommandError"}

\* `except (InitializationError, ApplicationError) as e:` around main's
\* body; ContainerError and its subclasses are a taxonomy of their own.
MainOuterCatches(exc) == IsApplicationError(exc)

\* Mutant of MainFinally: main ends without the finally clause.
MainNoFinally == "ended"

\* `finally:` the cleanup runs however the try block was left.
MainFinally == "cleanup"

\* main, at its try block, with a manager just built.
InitMain ==
    /\ engine \in InitialEngines
    /\ nextId = IF engine[1].present THEN 2 ELSE 1
    /\ container = NoHandle
    /\ container_status = ""
    /\ current_config = <<>>
    /\ last = NoInvocation
    /\ file = NoFile
    /\ scen = "off"
    /\ docker_settings = InitialDockerSettings
    /\ client = ClientFromEnv(docker_settings.held)
    /\ pc = [at |-> "try", step |-> 1, removes |-> 0, failed |-> FALSE,
             pending |-> "", escaped |-> FALSE]
    /\ CoreUntouched

\* One statement of the try block.  An exception leaves the block: a
\* ContainerError is caught and logged, any other stays pending while the
\* finally clause runs.
MainStep ==
    /\ pc.at = "try"
    /\ \E fault \in MainFaults :
         \E res \in
               IF Answered(MainRun(pc.step, NoExecResult, NoInfoAnswer,
                                   fault), "exec")
               THEN (IF pc.step \in 3..5 THEN PackageExecResults
                     ELSE ExecResults)
               ELSE {NoExecResult} :
           \E attrs \in
                 IF Answered(MainRun(pc.step, NoExecResult, NoInfoAnswer,
                                     fault), "image")
                 THEN InfoAnswers ELSE {NoInfoAnswer} :
             LET r == MainRun(pc.step, res, attrs, fault)
                 raised == MainRaised(pc.step, r)
             IN
             /\ Invoked(MainOp(pc.step), MainArg(pc.step),
                        MainCommand(pc.step),
                        IF pc.step = MainLength THEN attrs ELSE res, r)
             /\ pc' =
                  IF raised = "" /\ pc.step < MainLength
                  THEN [pc EXCEPT !.step = pc.step + 1]
                  ELSE [pc EXCEPT
                          !.at = MainFinally,
                          !.failed = IsContainerError(raised),
                          !.pending = IF IsContainerError(raised) THEN ""
                                      ELSE raised]

\* `finally: container_manager.remove()`; what remove raises replaces a
\* pending exception and leaves the try statement.  The outer handler
\* catches it if it is an application error; otherwise it escapes main.
MainCleanup ==
    /\ pc.at = "cleanup"
    /\ \E fault \in {"none", "reload", "stop", "remove"} :
         LET r == RemoveRun(FALSE, fault)
             leaving == IF r.kind = "raise" THEN r.exc ELSE pc.pending
         IN
         /\ Invoked("remove", FALSE, NoneVal, NoneVal, r)
         /\ pc' = [pc EXCEPT !.at = "ended",
                             !.removes = pc.removes + 1,
                             !.pending = leaving,
                             !.escaped = leaving # ""
                                         /\ ~MainOuterCatches(leaving)]

NextMain ==
    \/ MainStep
    \/ MainCleanup

MainSpec == InitMain /\ [][NextMain]_vars

(***************************************************************************)
(* The dependency container (app/core/di_container.py).                    *)
(***************************************************************************)
\* The instances handed to register; None can be handed like any other.
ServiceInstances == {"given", NoneVal}

\* The factories handed to register_factory, by what calling them does.
ServiceFactories == {"builds", "returns_none", "raises"}

\* self._factories[service_name](): the call of a registered factory.
FactoryCall(factory) ==
    IF factory = "raises"
    THEN [kind |-> "raise", exc |-> "RuntimeError", value |-> NoneVal]
    ELSE [kind |-> "return", exc |-> "",
          value |-> IF factory = "builds" THEN "built" ELSE NoneVal]

\* How many invocations of one registered factory a run follows.
MaxInvocations == 3

\* DIContainer.register
RegisterRun(svc, service_type, instance) ==
    [svc EXCEPT ![TypeName(service_type)] = <<instance>>]

\* DIContainer.register_factory
RegisterFactoryRun(fac, service_type, factory) ==
    [fac EXCEPT ![TypeName(service_type)] = <<factory>>]

\* DIContainer.get: a held instance first, then a factory whose product is
\* stored, else None.  What the factory raises leaves get.
GetRun(svc, fac, service_type) ==
    LET service_name == TypeName(service_type) IN
    IF svc[service_name] # <<>>
    THEN [services |-> svc, kind |-> "return", exc |-> "",
          value |-> svc[service_name][1], invoked |-> FALSE]
    ELSE IF fac[service_name] # <<>>
    THEN LET instance == FactoryCall(fac[service_name][1]) IN
         IF instance.kind = "raise"
         THEN [services |-> svc, kind |-> "raise", exc |-> instance.exc,
               value |-> NoneVal, invoked |-> TRUE]
         ELSE [services |->
                   [svc EXCEPT ![service_name] = <<instance.value>>],
               kind |-> "return", exc |-> "", value |-> instance.value,
               invoked |-> TRUE]
    ELSE [services |-> svc, kind |-> "return", exc |-> "",
          value |-> NoneVal, invoked |-> FALSE]

\* DIContainer.remove, on either dictionary.
RemoveKey(dict, service_type) ==
    [dict EXCEPT ![TypeName(service_type)] = <<>>]

\* The container manager, its configuration and main take no part.
ManagerUntouched ==
    UNCHANGED <<engine, nextId, container, container_status,
                current_config, file, scen, docker_settings, client, pc>>

\* An operation of the dependency container on service_type ended as r;
\* the record keeps what the container held for the type when it began.
ContainerDid(op, service_type, r) ==
    /\ last' = [NoInvocation EXCEPT
                   !.op = op, !.arg = service_type, !.kind = r.kind,
                   !.exc = r.exc, !.value = r.value,
                   !.input =
                       IF op = "clear" THEN NoneVal
                       ELSE [held |->
                                 services[TypeName(service_type)] # <<>>,
                             has_factory |->
                                 factories[TypeName(service_type)] # <<>>,
                             was_registered |->
                                 service_type \in registered,
                             invoked |-> r.invoked]]
    /\ ManagerUntouched
    /\ UNCHANGED <<use_sudo, sudo_user>>

NothingReturned ==
    [kind |-> "return", exc |-> "", value |-> NoneVal, invoked |-> FALSE]

InitCore ==
    /\ Init
    /\ ~engine[1].present

Register ==
    \E service_type \in ServiceTypes, instance \in ServiceInstances :
        /\ services' = RegisterRun(services, service_type, instance)
        /\ registered' = registered \cup {service_type}
        /\ UNCHANGED <<factories, invocations>>
        /\ ContainerDid("register", service_type, NothingReturned)

RegisterFactory ==
    \E service_type \in ServiceTypes, factory \in ServiceFactories :
        /\ factories' = RegisterFactoryRun(factories, service_type, factory)
        /\ registered' = registered \cup {service_type}
        /\ invocations' =
               [invocations EXCEPT ![TypeName(service_type)] = 0]
        /\ UNCHANGED services
        /\ ContainerDid("register_factory", service_type, NothingReturned)

Get ==
    \E service_type \in ServiceTypes :
        LET r == GetRun(services, factories, service_type)
            service_name == TypeName(service_type)
        IN
        /\ r.invoked => invocations[service_name] < MaxInvocations
        /\ services' = r.services
        /\ invocations' =
               IF r.invoked
               THEN [invocations EXCEPT
                        ![service_name] = invocations[service_name] + 1]
               ELSE invocations
        /\ UNCHANGED <<factories, registered>>
        /\ ContainerDid("get", service_type, r)

RemoveService ==
    \E service_type \in ServiceTypes :
        /\ services' = RemoveKey(services, service_type)
        /\ factories' = RemoveKey(factories, service_type)
        /\ registered' = registered \ {service_type}
        /\ invocations' =
               [invocations EXCEPT ![TypeName(service_type)] = 0]
        /\ ContainerDid("remove_service", service_type, NothingReturned)

Clear ==
    /\ services' = EmptyDict
    /\ factories' = EmptyDict
    /\ registered' = {}
    /\ invocations' = [n \in TypeNames |-> 0]
    /\ ContainerDid("clear", NoneVal, NothingReturned)

NextDI ==
    \/ Register
    \/ RegisterFactory
    \/ Get
    \/ RemoveService
    \/ Clear

DISpec == InitCore /\ [][NextDI]_vars

(***************************************************************************)
(* The command manager (app/core/command_manager.py).                      *)
(***************************************************************************)
\* The commands handed in: a string, a list of parts, and a value that is
\* neither (None).
ShellCommands ==
    {[type |-> "str", text |-> "ls -la", parts |-> <<>>],
     [type |-> "list", text |-> "", parts |-> <<"apt", "update">>],
     [type |-> "NoneType", text |-> "", parts |-> <<>>]}

\* The users a caller names; None and "" name nobody.
SudoUsers == {NoneVal, "", "root", "builder"}

\* str.split() of the command strings handed in.
SplitWords(text) ==
    IF text = "ls -la" THEN <<"ls", "-la">> ELSE <<text>>

\* " ".join(parts)
RECURSIVE JoinWords(_)
JoinWords(parts) ==
    IF Len(parts) = 0 THEN ""
    ELSE IF Len(parts) = 1 THEN parts[1]
    ELSE parts[1] \o " " \o JoinWords(Tail(parts))

\* How the process ends: it exits with 0, exits with another code, runs
\* past the timeout, or cannot be started at all.
ProcessOutcomes == {"success", "failed", "timeout", "oserror"}

\* CommandManager._build_command; a command that is neither a string nor
\* a list cannot be appended to the sudo prefix.
BuildCommand(use, user, command) ==
    LET command_parts == IF command.type = "str"
                         THEN SplitWords(command.text)
                         ELSE command.parts
        sudo_cmd == IF user # NoneVal /\ user # ""
                    THEN <<"sudo", "-u", user>>
                    ELSE <<"sudo">>
    IN
    IF use
    THEN IF command.type = "NoneType"
         THEN [kind |-> "raise", exc |-> "TypeError", value |-> NoneVal]
         ELSE [kind |-> "return", exc |-> "",
               value |-> sudo_cmd \o command_parts]
    ELSE [kind |-> "return", exc |-> "", value |-> command_parts]

CommandResult(status, return_code, command_parts, error) ==
    [kind |-> "return", exc |-> "",
     value |-> [status |-> status, return_code |-> return_code,
                command |-> JoinWords(command_parts), error |-> error]]

\* CommandManager.execute.  The handler of `except Exception` joins
\* command_parts, which is unbound when _build_command raised and None when
\* a None command was built without sudo.
ExecuteCommand(use, user, command, outcome) ==
    LET built == BuildCommand(use, user, command) IN
    IF built.kind = "raise"
    THEN [kind |-> "raise", exc |-> "UnboundLocalError", value |-> NoneVal]
    ELSE IF command.type = "NoneType"
    THEN [kind |-> "raise", exc |-> "TypeError", value |-> NoneVal]
    ELSE IF outcome = "oserror"
    THEN CommandResult("failed", -1, built.value, "oserror")
    ELSE IF outcome = "timeout"
    THEN CommandResult("timeout", -1, built.value, "Command timed out")
    ELSE IF outcome = "success"
    THEN CommandResult("success", 0, built.value, NoneVal)
    ELSE CommandResult("failed", 1, built.value, NoneVal)

\* Mutant of SudoRestored: the attribute stays as execute_sudo set it.
SudoLeftAsSet(original, during) == during

\* The finally clause of execute_sudo, for either attribute.
SudoRestored(original, during) == original

\* CommandManager.execute_sudo: both attributes are saved, set, used by
\* execute, and put back.
ExecuteSudoRun(use, user, command, as_user, outcome) ==
    LET r == ExecuteCommand(TRUE, as_user, command, outcome) IN
    [use_sudo |-> SudoRestored(use, TRUE),
     sudo_user |-> SudoRestored(user, as_user),
     kind |-> r.kind, exc |-> r.exc, value |-> r.value]

\* An operation of the command manager ended as r.
CommandDid(op, command, as_user, outcome, r) ==
    /\ last' = [NoInvocation EXCEPT
                   !.op = op,
                   !.arg = [command |-> command, sudo_user |-> as_user],
                   !.input = [outcome |-> outcome, use_sudo |-> use_sudo,
                              sudo_user |-> sudo_user],
                   !.kind = r.kind, !.exc = r.exc, !.value = r.value]
    /\ ManagerUntouched
    /\ UNCHANGED <<services, factories, invocations, registered>>

\* CommandManager(use_sudo, sudo_user)
InitCommand ==
    /\ engine \in InitialEngines
    /\ ~engine[1].present
    /\ nextId = 1
    /\ container = NoHandle
    /\ container_status = ""
    /\ current_config = <<>>
    /\ last = NoInvocation
    /\ file = NoFile
    /\ scen = "off"
    /\ docker_settings = InitialDockerSettings
    /\ client = ClientFromEnv(docker_settings.held)
    /\ pc = NoMain
    /\ services = EmptyDict
    /\ factories = EmptyDict
    /\ invocations = [n \in TypeNames |-> 0]
    /\ registered = {}
    /\ use_sudo \in BOOLEAN
    /\ sudo_user \in SudoUsers

CommandExecute ==
    \E command \in ShellCommands, outcome \in ProcessOutcomes :
        /\ UNCHANGED <<use_sudo, sudo_user>>
        /\ CommandDid("execute_command", command, NoneVal, outcome,
                      ExecuteCommand(use_sudo, sudo_user, command, outcome))

CommandExecuteSudo ==
    \E command \in ShellCommands, as_user \in SudoUsers,
       outcome \in ProcessOutcomes :
        LET r == ExecuteSudoRun(use_sudo, sudo_user, command, as_user,
                                outcome)
        IN
        /\ use_sudo' = r.use_sudo
        /\ sudo_user' = r.sudo_user
        /\ CommandDid("execute_sudo", command, as_user, outcome, r)

NextCommand ==
    \/ CommandExecute
    \/ CommandExecuteSudo

CommandSpec == InitCommand /\ [][NextCommand]_vars

(***************************************************************************)
(* Reading the record of an invocation.                                    *)
(***************************************************************************)
\* The kinds of the engine calls issued, in order.
Kinds(calls) == [i \in 1..Len(calls) |-> calls[i][1]]

\* How many calls of kind k were issued.
Count(calls, k) == Cardinality({i \in 1..Len(calls) : calls[i][1] = k})

Issued(calls, k) == Count(calls, k) > 0

\* Every call of kind a comes before every call of kind b.
Precedes(calls, a, b) ==
    \A i, j \in 1..Len(calls) :
        calls[i][1] = a /\ calls[j][1] = b => i < j

\* The text captured on a stream: nothing for None.
Captured(b) == IF b = NoBytes THEN <<>> ELSE b

(***************************************************************************)
(* C1.  create is idempotent by name.                                      *)
(***************************************************************************)
\* Whenever the engine lists a container named spec.name (and the lookup
\* does not fault), create returns that container's id, holds it as the
\* handle, issues no pull and no create call and leaves the engine alone.
C1_Adopts ==
    \A id \in Ids :
        (/\ last'.op = "create"
         /\ last'.faulted = ""
         /\ engine[id].present
         /\ StrTruthy(last'.arg.name)
         /\ engine[id].name = last'.arg.name)
        => /\ last'.kind = "return"
           /\ last'.value = id
           /\ container' = id
           /\ ~Issued(last'.calls, "pull")
           /\ ~Issued(last'.calls, "create")
           /\ engine' = engine

\* A create that returned, followed by a create with the same non-empty
\* name: the second returns the same id and neither pulls nor creates.
C1_Twice ==
    (/\ last.op = "create"
     /\ last.kind = "return"
     /\ StrTruthy(last.arg.name)
     /\ last'.op = "create"
     /\ last'.arg.name = last.arg.name
     /\ last'.faulted = "")
    => /\ last'.kind = "return"
       /\ last'.value = last.value
       /\ ~Issued(last'.calls, "pull")
       /\ ~Issued(last'.calls, "create")

C2_Image(config) ==
    IF config.os_type = "UBUNTU" THEN "ubuntu:" \o config.os_version
    ELSE "alpine:" \o config.os_version

\* C2 (as claimed): for every spec whose name the engine does not list,
\* volume mappings or none, a create that meets no engine fault pulls
\* '{family}:{version}', then issues exactly one create call, binds the
\* new container and returns its id.
C2_CreateNew ==
    [][(/\ last'.op = "create"
        /\ last'.faulted = ""
        /\ EngineList(engine, last'.arg.name) = {})
       => /\ last'.kind = "return"
          /\ Count(last'.calls, "pull") = 1
          /\ Count(last'.calls, "create") = 1
          /\ Precedes(last'.calls, "pull", "create")
          /\ \E i \in 1..Len(last'.calls) :
                last'.calls[i] = <<"pull", C2_Image(last'.arg)>>
          /\ container' = last'.value
          /\ ~EngineHas(engine, container')
          /\ EngineHas(engine', container')]_vars

(***************************************************************************)
(* C3.  execute starts a container that is not running.                    *)
(***************************************************************************)
\* C3: execute on a held container that is not running issues exactly one
\* start call, before the exec call; on a running container it issues no
\* start call.  (The status is the one the engine reports to the reload.)
C3_ExecuteAutoStart ==
    (/\ last.op = "execute"
     /\ last.pre_container # NoHandle
     /\ last.faulted # "reload")
    => IF last.pre_status = "running"
       THEN Count(last.calls, "start") = 0
       ELSE /\ Count(last.calls, "start") = 1
            /\ Precedes(last.calls, "start", "exec")

\* C3 witness: a stopped container was started and then ran the command.
C3_Witness ==
    /\ last.op = "execute"
    /\ last.pre_status = "exited"
    /\ last.kind = "return"
    /\ Kinds(last.calls) = <<"reload", "start", "exec">>

(***************************************************************************)
(* C4.  remove stops a running container first, unless forced.             *)
(***************************************************************************)
\* C4: remove(force=false) on a running container issues the stop call
\* before the remove call; remove(force=true) issues the remove call and
\* nothing before it, running or not.
C4_RemoveStopOrder ==
    (last.op = "remove" /\ last.pre_container # NoHandle)
    => /\ last.arg = TRUE => Kinds(last.calls) = <<"remove">>
       /\ (/\ last.arg = FALSE
           /\ last.pre_status = "running"
           /\ last.faulted # "reload")
          => /\ Count(last.calls, "stop") = 1
             /\ Precedes(last.calls, "stop", "remove")
             /\ last.faulted = ""
                => Kinds(last.calls) = <<"reload", "stop", "remove">>

\* C4 witness: an unforced remove of a running container succeeded.
C4_Witness ==
    /\ last.op = "remove"
    /\ last.arg = FALSE
    /\ last.pre_status = "running"
    /\ last.kind = "return"
    /\ Kinds(last.calls) = <<"reload", "stop", "remove">>

(***************************************************************************)
(* C5.  A successful remove leaves the manager Absent.                     *)
(***************************************************************************)
\* C5: after every remove that returned, forced or not, the manager holds
\* no handle and no bound spec.
C5_RemoveClears ==
    (last.op = "remove" /\ last.kind = "return")
    => container = NoHandle /\ current_config = <<>>

\* C5 witness: a forced remove of a running container returned.
C5_Witness ==
    /\ last.op = "remove"
    /\ last.kind = "return"
    /\ last.arg = TRUE
    /\ last.pre_status = "running"
    /\ last.pre_container # NoHandle

(***************************************************************************)
(* C6.  The walk-through: create, start, execute('echo hi'), remove.       *)
(***************************************************************************)
\* C6 (as claimed): with spec {Ubuntu, 22.04, t1}, an engine without t1
\* and no engine fault, every step of create, start, execute('echo hi'),
\* remove(force=false) returns, execute returns 'hi', and at the end the
\* manager holds no handle and the engine has no container named t1.
C6_Scenario ==
    scen \in {"created", "started", "executed", "removed"}
    => /\ last.kind = "return"
       /\ scen = "executed" => last.value = <<104, 105>>
       /\ scen = "removed"
          => container = NoHandle /\ EngineList(engine, "t1") = {}

(***************************************************************************)
(* C7.  A command that exits non-zero.                                     *)
(***************************************************************************)
\* C7 (as claimed): whenever the command exits non-zero, with stdout,
\* stderr, both or neither captured, execute raises ContainerExecuteError
\* with a message holding the exit code and the stderr text, or the stdout
\* text when stderr is empty.
C7_NonZeroExit ==
    (/\ last.op = "execute"
     /\ last.faulted = ""
     /\ Issued(last.calls, "exec")
     /\ last.input.exit_code # 0)
    => /\ last.kind = "raise"
       /\ last.exc = "ContainerExecuteError"
       /\ last.msg.code = <<last.input.exit_code>>
       /\ last.msg.detail =
            IF Captured(last.input.err) # <<>>
            THEN Captured(last.input.err)
            ELSE Captured(last.input.out)

(***************************************************************************)
(* C8.  Operations that need a handle, called without one.                 *)
(***************************************************************************)
NeedHandle ==
    {"start", "stop", "execute", "remove", "get_container_info",
     "get_logs"}

\* C8: with no handle held, start, stop, execute, remove,
\* get_container_info and get_logs each raise ContainerNotFoundError,
\* issue no engine call and leave the handle and the spec as they were.
C8_NoHandleNotFound ==
    (last.op \in NeedHandle /\ last.pre_container = NoHandle)
    => /\ last.kind = "raise"
       /\ last.exc = "ContainerNotFoundError"
       /\ last.calls = <<>>
       /\ container = last.pre_container
       /\ last.same_config

\* C8 witness: get_logs was refused while a spec was bound (by a create
\* that failed) and no handle was held.
C8_Witness ==
    /\ last.op = "get_logs"
    /\ last.pre_container = NoHandle
    /\ last.exc = "ContainerNotFoundError"
    /\ current_config # <<>>

(***************************************************************************)
(* C9.  get_status never raises.                                           *)
(***************************************************************************)
\* C9 (as claimed): get_status always returns; with no handle held or a
\* failing engine query it returns the Failed status value, otherwise the
\* status value the engine reports.
C9_GetStatusTotal ==
    last.op = "get_status"
    => /\ last.kind = "return"
       /\ last.value =
            IF last.pre_container = NoHandle \/ last.faulted # ""
            THEN "failed" ELSE last.pre_status

(***************************************************************************)
(* C10.  The handle changes only by a successful remove.                   *)
(***************************************************************************)
\* C10 (as claimed): a held handle never becomes a handle on a different
\* container; it only goes away, by a remove that returned.
C10_OwnershipNeverTransfers ==
    [][(container # NoHandle /\ container' # container)
       => /\ container' = NoHandle
          /\ last'.op = "remove"
          /\ last'.kind = "return"]_vars

(***************************************************************************)
(* C11.  start is a no-op on a running container.                          *)
(***************************************************************************)
\* C11: start on a held handle whose live status (the one the engine
\* reports to the reload) is running issues no engine start call and
\* returns without error; for any other live status it issues exactly one
\* engine start call.
C11_StartNoopWhenRunning ==
    (/\ last.op = "start"
     /\ last.pre_container # NoHandle
     /\ last.faulted # "reload")
    => IF last.pre_status = "running"
       THEN /\ Count(last.calls, "start") = 0
            /\ last.kind = "return"
            /\ engine[container].status = "running"
       ELSE Count(last.calls, "start") = 1

\* C11 witness: start returned on a container that was already running,
\* after a reload and nothing else.
C11_Witness ==
    /\ last.op = "start"
    /\ last.pre_container # NoHandle
    /\ last.pre_status = "running"
    /\ last.kind = "return"
    /\ Kinds(last.calls) = <<"reload">>

(***************************************************************************)
(* C12.  Faults surface as the typed error of the operation.               *)
(***************************************************************************)
TypedError(op) ==
    CASE op = "create" -> "ContainerCreateError"
      [] op = "start" -> "ContainerStartError"
      [] op = "stop" -> "ContainerStopError"
      [] op = "execute" -> "ContainerExecuteError"
      [] op = "remove" -> "ContainerRemoveError"

\* C12: whatever goes wrong inside create, start, stop, execute or remove
\* reaches the caller as the typed error of that operation (or as the
\* not-found error of a manager without a handle), never as a raw error;
\* and an engine fault always reaches the caller as the typed error.
C12_TypedErrorsOnly ==
    (last.op \in {"create", "start", "stop", "execute", "remove"})
    => /\ last.kind = "raise"
          => last.exc \in {TypedError(last.op), "ContainerNotFoundError"}
       /\ last.faulted # ""
          => last.kind = "raise" /\ last.exc = TypedError(last.op)

(***************************************************************************)
(* C13.  The package methods hand execute the family's template.           *)
(***************************************************************************)
\* The template of a verb in a profile, as the claim names them.
C13_Template(profile, verb) ==
    CASE verb = "update_packages" -> profile.update_cmd
      [] verb = "install_package" -> profile.install_cmd
      [] verb = "remove_package" -> profile.remove_cmd
      [] verb = "search_package" -> profile.search_cmd
      [] verb = "list_installed_packages" -> profile.list_cmd
      [] verb = "clean_package_cache" -> profile.clean_cmd

C13_Expected(family, verb, argument) ==
    LET profile ==
            PACKAGE_MANAGER_CONFIGS[OS_PACKAGE_MANAGER_MAPPING[family]]
    IN
    IF verb \in {"install_package", "remove_package", "search_package"}
    THEN C13_Template(profile, verb) \o " " \o argument
    ELSE C13_Template(profile, verb)

\* C13: for every OS family and every package verb, the command handed to
\* execute (and, when execute gets that far, to the engine) is the family's
\* template for the verb, followed for install, remove and search by one
\* space and the caller's argument; Debian install('curl') hands over
\* 'apt install -y curl'.
C13_PackageCommandIsTemplate ==
    (last.op \in PackageVerbs /\ last.pre_bound)
    => LET family == current_config[1].os_type
           expected == C13_Expected(family, last.op, last.arg)
       IN
       /\ last.command = expected
       /\ \A i \in 1..Len(last.calls) :
              last.calls[i][1] = "exec" => last.calls[i][3] = expected
       /\ (family = "DEBIAN" /\ last.op = "install_package"
           /\ last.arg = "curl")
          => last.command = "apt install -y curl"
       /\ (family = "ALPINE" /\ last.op = "clean_package_cache")
          => last.command = "apk cache clean"

\* C13 witness: install('curl') on a Debian container ran in the engine.
C13_Witness ==
    /\ last.op = "install_package"
    /\ last.arg = "curl"
    /\ last.pre_bound
    /\ current_config[1].os_type = "DEBIAN"
    /\ last.kind = "return"
    /\ last.calls[Len(last.calls)] = <<"exec", container, "apt install -y curl">>

(***************************************************************************)
(* C15.  Package operations need a bound spec.                             *)
(***************************************************************************)
\* C15: on a manager with no bound spec (never created, or after a
\* successful remove) every package operation raises the
\* no-active-configuration error, hands nothing to execute and issues no
\* engine call.
C15_NoConfigNoPackageOp ==
    (last.op \in PackageVerbs /\ ~last.pre_bound)
    => /\ last.kind = "raise"
       /\ last.exc = "ContainerError"
       /\ last.msg.text = "No configuration available"
       /\ last.calls = <<>>
       /\ last.command = NoneVal
       /\ current_config = <<>>

\* C15 witness: a package operation was refused on a manager whose
\* container had been created and then removed.
C15_Witness ==
    /\ last.op \in PackageVerbs
    /\ ~last.pre_bound
    /\ last.exc = "ContainerError"
    /\ \E id \in Ids : id < nextId /\ ~engine[id].present

(***************************************************************************)
(* C14.  Every OS family has a package manager profile.                    *)
(***************************************************************************)
\* C14: get_package_manager returns, for every member of the OS family
\* enumeration, a profile with a non-empty install_cmd and a non-empty
\* list of bootstrap packages; the mapping names one kind for every
\* family, and every kind it names has a profile.
C14_MappingTotal ==
    /\ last.op = "get_package_manager"
       => /\ last.arg \in OSTypeMembers
          /\ last.kind = "return"
          /\ last.value.install_cmd # ""
          /\ last.value.require_packages # <<>>
    /\ \A os_type \in OSTypeMembers :
          /\ os_type \in DOMAIN OS_PACKAGE_MANAGER_MAPPING
          /\ OS_PACKAGE_MANAGER_MAPPING[os_type] \in PackageManagerMembers
          /\ OS_PACKAGE_MANAGER_MAPPING[os_type]
                \in DOMAIN PACKAGE_MANAGER_CONFIGS

\* C14 witness: the lookup for Arch Linux returned the pacman profile.
C14_Witness ==
    /\ last.op = "get_package_manager"
    /\ last.arg = "ARCHLINUX"
    /\ last.kind = "return"
    /\ last.value.install_cmd = "pacman -S --noconfirm"

(***************************************************************************)
(* C16 - C18.  Parsing a document.                                         *)
(***************************************************************************)
ParseOps == {"parse_config", "load_from_file"}

\* The document of the recorded parse has both required keys.
HasRequired(doc) ==
    doc.kind = "mapping" /\ {"os_type", "os_version"} \subseteq DOMAIN doc.items

\* os_type strings of the model that name no OS family in any case.
UnknownFamilies == {"bogus", "invalid_os", "arch"}

Names_(msg) == {msg[i] : i \in 1..Len(msg)}

\* C16: parsing a document that has both required fields and whose os_type
\* string names no OS family fails with the configuration error whose
\* message names 'Unsupported OS type' and the string; the failures for a
\* missing field and for a malformed document never carry that text, and
\* the unsupported-OS failure never carries the missing-field text.
C16_UnsupportedOSError ==
    (last.op \in ParseOps)
    => /\ (HasRequired(last.arg)
           /\ last.arg.items["os_type"] \in UnknownFamilies)
          => /\ last.kind = "raise"
             /\ last.exc = "ContainerConfigError"
             /\ "Unsupported OS type: " \in Names_(last.msg)
             /\ last.arg.items["os_type"] \in Names_(last.msg)
             /\ "Missing required fields: os_type and os_version"
                   \notin Names_(last.msg)
       /\ (last.kind = "raise" /\ ~HasRequired(last.arg))
          => "Unsupported OS type: " \notin Names_(last.msg)

\* C16 witness: the document {os_type: bogus, os_version: '1'} was refused.
C16_Witness ==
    /\ last.op \in ParseOps
    /\ HasRequired(last.arg)
    /\ last.arg.items["os_type"] = "bogus"
    /\ last.arg.items["os_version"] = "1"
    /\ last.kind = "raise"
    /\ "Unsupported OS type: " \in Names_(last.msg)

\* C17: parsing fails with the configuration error whenever os_type or
\* os_version is absent from the document or the document is not a
\* mapping, and a parse that returns never returns a spec without a family
\* or without a version.
C17_RequiredFields ==
    (last.op \in ParseOps)
    => /\ ~HasRequired(last.arg)
          => last.kind = "raise" /\ last.exc = "ContainerConfigError"
       /\ last.kind = "return"
          => /\ last.value.os_type \in OSTypeMembers
             /\ last.value.os_version # NoneVal

\* A field of a spec is empty: None, '' or an empty mapping.
IsEmpty(config, field) ==
    IF field \in MapFields THEN config[field] \in {NoneMap, {}}
    ELSE config[field] \in {NoneVal, ""}

\* C18: loading the file that save_to_file wrote from a spec returns a spec
\* with the same os_type and os_version and the same value in every
\* optional field that was not empty; the optional fields that were empty,
\* and so left out of the document, are empty (None or an empty mapping)
\* in the spec returned.
C18_RoundTrip ==
    (last.op = "load_from_file" /\ file.of # <<>>)
    => LET config == file.of[1]
       IN
       /\ last.kind = "return"
       /\ last.value.os_type = config.os_type
       /\ last.value.os_version = config.os_version
       /\ \A field \in OptionalScalars \cup MapFields :
             IF IsEmpty(config, field)
             THEN /\ field \notin DOMAIN last.arg.items
                  /\ IsEmpty(last.value, field)
             ELSE last.value[field] = config[field]

\* C18 witness: a spec with a quoted version, a name, an environment and
\* no volumes came back from the file.
C18_Witness ==
    /\ last.op = "load_from_file"
    /\ file.of # <<>>
    /\ file.of[1].os_version = "22.04"
    /\ file.of[1].name = "t1"
    /\ file.of[1].environment = {<<"TEST", "1">>}
    /\ file.of[1].volumes = NoneMap
    /\ last.kind = "return"
    /\ last.value.name = "t1"

(***************************************************************************)
(* C19.  What save_to_file writes.                                         *)
(***************************************************************************)
FamilyLowerCase(os_type) ==
    CASE os_type = "UBUNTU" -> "ubuntu"
      [] os_type = "ALPINE" -> "alpine"
      [] os_type = "ARCHLINUX" -> "archlinux"

\* C19: the document save_to_file writes has os_type (the family name in
\* lower case) and os_version, and has each of name, volumes, environment,
\* working_dir and command exactly when that field of the spec is not
\* empty, with the field's value.
C19_SerializeFields ==
    (last.op = "save_to_file" /\ last.kind = "return")
    => LET config == last.arg
           written == YamlLoadDoc(file.doc).items
       IN
       /\ file.kind = "yaml"
       /\ file.doc.kind = "mapping"
       /\ DOMAIN written =
             {"os_type", "os_version"}
                \cup {field \in OptionalScalars \cup MapFields :
                        ~IsEmpty(config, field)}
       /\ file.doc.items["os_type"].text = FamilyLowerCase(config.os_type)
       /\ written["os_version"] = config.os_version
       /\ \A field \in DOMAIN written \ {"os_type", "os_version"} :
             written[field] = config[field]

\* C19 witness: a spec with an empty name, no volumes and an environment
\* was written.
C19_Witness ==
    /\ last.op = "save_to_file"
    /\ last.kind = "return"
    /\ last.arg.name = ""
    /\ last.arg.volumes = {}
    /\ last.arg.environment # NoneMap
    /\ "environment" \in DOMAIN file.doc.items
    /\ "name" \notin DOMAIN file.doc.items

(***************************************************************************)
(* C20.  Defaults of ContainerConfig.                                      *)
(***************************************************************************)
\* C20: a ContainerConfig built without volumes and without environment
\* has an empty mapping in both, and has no name and no working_dir when
\* it was built without them.
C20_ConfigDefaults ==
    (/\ last.op = "ContainerConfig"
     /\ "volumes" \notin last.arg
     /\ "environment" \notin last.arg)
    => /\ last.value.volumes = {}
       /\ last.value.environment = {}
       /\ "name" \notin last.arg => last.value.name = NoneVal
       /\ "working_dir" \notin last.arg => last.value.working_dir = NoneVal

(***************************************************************************)
(* C21: get_docker_settings returns the default settings (local socket,    *)
(* API version 'auto', timeout 120, TLS off, no certificate) until         *)
(* update_docker_settings is called, and afterwards exactly the value last *)
(* passed, with no field carried over from an earlier value.               *)
(***************************************************************************)
C21_Defaults ==
    [socket_path |-> "unix://var/run/docker.sock", api_version |-> "auto",
     timeout |-> 120, tls |-> FALSE, cert_path |-> NoneVal]

C21_SettingsLastPassed ==
    last.op = "get_docker_settings" =>
        last.value = IF docker_settings.passed = <<>> THEN C21_Defaults
                     ELSE docker_settings.passed[1]

\* A read after the settings were replaced by a value that sets the
\* timeout only.
C21_Witness ==
    /\ last.op = "get_docker_settings"
    /\ docker_settings.passed # <<>>
    /\ last.value.timeout = 30
    /\ last.value.cert_path = NoneVal

(***************************************************************************)
(* C22: replacing the engine settings after a manager was built changes    *)
(* nothing in that manager: its connection keeps the timeout and API       *)
(* version read at construction, and no later operation re-reads them.     *)
(***************************************************************************)
C22_ClientKeepsSettings ==
    [][/\ client # <<>> => client' = client
       /\ (client = <<>> /\ client' # <<>>) =>
            client'[1] = [timeout |-> docker_settings.held.timeout,
                          version |-> docker_settings.held.api_version]
      ]_vars

\* The manager has worked after the settings were replaced by others than
\* it was built with.
C22_Witness ==
    /\ client # <<>>
    /\ client[1].timeout # docker_settings.held.timeout
    /\ last.op = "create" /\ last.kind = "return"

(***************************************************************************)
(* C23: building a manager when the engine cannot be reached fails with    *)
(* ContainerError 'Docker initialization failed' and leaves no manager to  *)
(* use; when the engine is reached the manager starts with no handle and   *)
(* no bound spec.                                                          *)
(***************************************************************************)
C23_Constructed ==
    IF last.op # "__init__" THEN TRUE
    ELSE IF last.input
    THEN /\ last.kind = "return"
         /\ client # <<>>
         /\ container = NoHandle
         /\ current_config = <<>>
    ELSE /\ last.kind = "raise"
         /\ last.exc = "ContainerError"
         /\ last.msg.text = "Docker initialization failed: "
         /\ client = <<>>

C23_Construction ==
    /\ []C23_Constructed
    /\ [][client = <<>> =>
            last'.op \in {"__init__", "get_docker_settings",
                          "update_docker_settings"}]_vars

C23_Witness ==
    /\ last.op = "__init__"
    /\ last.kind = "raise"
    /\ client = <<>>

C25_GetContainerInfo ==
    (last.op = "get_container_info" /\ last.pre_container # NoHandle) =>
        /\ last.kind = "return"
        /\ Kinds(last.calls)[1] = "reload"
        /\ last.faulted = "" =>
             /\ last.value.id = last.pre_container
             /\ last.value.name = engine[last.pre_container].name
             /\ last.value.status = last.pre_status
             /\ last.value.image = last.input.tags[1]
             /\ last.value.created = last.input.created
             /\ last.value.ports = last.input.ports
             /\ last.value.network_setting = last.input.network
        /\ container = last.pre_container
        /\ last.same_config

(***************************************************************************)
(* C26: stop on a held handle issues exactly one engine stop call          *)
(* whatever the container's status, without re-querying the status first,  *)
(* and leaves the handle and spec bound.                                   *)
(***************************************************************************)
C26_StopOnce ==
    (last.op = "stop" /\ last.pre_container # NoHandle) =>
        /\ Kinds(last.calls) = <<"stop">>
        /\ last.calls[1][2] = last.pre_container
        /\ container = last.pre_container
        /\ last.same_config
        /\ last.pre_bound => current_config # <<>>

\* stop was issued for a container that was not running.
C26_Witness ==
    /\ last.op = "stop"
    /\ last.pre_container # NoHandle
    /\ last.pre_status = "exited"
    /\ last.kind = "return"

(***************************************************************************)
(* C28: no operation retries.  Within one invocation of create, start,     *)
(* stop, execute or remove each engine call (list, pull, create, reload,   *)
(* start, stop, exec, remove) is issued at most once, and the first        *)
(* failing engine call ends the invocation with the operation's typed      *)
(* error and no further engine call.                                       *)
(***************************************************************************)
C28_EngineCalls ==
    {"list", "pull", "create", "reload", "start", "stop", "exec", "remove"}

C28_NoRetry ==
    (last.op \in {"create", "start", "stop", "execute", "remove"}) =>
        /\ \A k \in C28_EngineCalls : Count(last.calls, k) <= 1
        /\ \A i \in 1..Len(last.calls) : last.calls[i][1] \in C28_EngineCalls
        /\ last.faulted # "" =>
             /\ last.kind = "raise"
             /\ last.exc = TypedError(last.op)
             /\ Kinds(last.calls)[Len(last.calls)] = last.faulted

\* execute reloaded, then its start call failed: two calls, no third.
C28_Witness ==
    /\ last.op = "execute"
    /\ last.faulted = "start"
    /\ Kinds(last.calls) = <<"reload", "start">>

(***************************************************************************)
(* C30: every state-dependent decision uses a freshly queried status.  In  *)
(* start, execute and remove(force=false) the engine reload call comes     *)
(* before the read of the status within the same invocation, so a status   *)
(* cached by an earlier operation is never what the decision rests on.     *)
(***************************************************************************)
C30_Decides ==
    \/ last.op \in {"start", "execute"}
    \/ (last.op = "remove" /\ last.arg = FALSE)

C30_FreshStatus ==
    (C30_Decides /\ last.pre_container # NoHandle) =>
        /\ Kinds(last.calls)[1] = "reload"
        /\ last.faulted # "reload" =>
             /\ last.seen_status = last.pre_status
             /\ last.op \in {"start", "execute"} =>
                  (Issued(last.calls, "start") <=>
                       last.pre_status # "running")
             /\ last.op = "remove" =>
                  (Issued(last.calls, "stop") <=>
                       last.pre_status = "running")

\* execute found the container running although the handle still said
\* 'created', and did not start it again.
C30_Witness ==
    /\ last.op = "execute"
    /\ last.pre_cached = "created"
    /\ last.pre_status = "running"
    /\ last.kind = "return"
    /\ ~Issued(last.calls, "start")

(***************************************************************************)
(* C29: parse matches the os_type string against the family enumeration   *)
(* without regard to case: any upper/lower-case spelling of a supported    *)
(* family name yields the same family as the lower-case spelling.          *)
(***************************************************************************)
\* Spellings of the model's documents, each with the family its lower-case
\* spelling names.
C29_Spellings ==
    {<<"ubuntu", "UBUNTU">>, <<"Ubuntu", "UBUNTU">>, <<"UBUNTU", "UBUNTU">>,
     <<"uBuNtU", "UBUNTU">>, <<"alpine", "ALPINE">>, <<"Alpine", "ALPINE">>,
     <<"archlinux", "ARCHLINUX">>, <<"ArchLinux", "ARCHLINUX">>}

C29_CaseInsensitive ==
    (last.op \in ParseOps /\ HasRequired(last.arg)) =>
        \A spelling \in C29_Spellings :
            last.arg.items["os_type"] = spelling[1] =>
                /\ last.kind = "return"
                /\ last.value.os_type = spelling[2]

\* The document {os_type: uBuNtU, os_version: '22.04'} was parsed.
C29_Witness ==
    /\ last.op \in ParseOps
    /\ HasRequired(last.arg)
    /\ last.arg.items["os_type"] = "uBuNtU"
    /\ last.kind = "return"
    /\ last.value.os_type = "UBUNTU"

(***************************************************************************)
(* C27: in the top-level sequence of main (create, start, package          *)
(* operations, execute, info), whichever step fails with a container       *)
(* error, the cleanup step still calls remove exactly once before main     *)
(* ends.                                                                   *)
(***************************************************************************)
C27_CleanupRemoves ==
    /\ [](pc.removes <= 1)
    /\ [](pc.at = "ended" => (pc.removes = 1 /\ last.op = "remove"))
    /\ [](pc.at = "cleanup" => ENABLED MainCleanup)
    /\ [][/\ (pc.at = "try" /\ pc'.failed) =>
               (pc'.at = "cleanup" /\ pc'.removes = 0)
          /\ pc.at = "cleanup" =>
               (pc'.at = "ended" /\ pc'.removes = 1
                /\ last'.op = "remove")
         ]_vars

\* main ended after its first execute failed with a container error.
C27_Witness ==
    /\ pc.at = "ended"
    /\ pc.failed
    /\ pc.step = 6
    /\ pc.removes = 1

(***************************************************************************)
(* C31: when remove fails (the status re-query, the courtesy stop or the   *)
(* engine remove call faults) it raises ContainerRemoveError and the       *)
(* manager keeps the handle and bound spec it had before the call; when    *)
(* the courtesy stop faults, the engine remove call is not issued.         *)
(***************************************************************************)
C31_RemoveFailureKeeps ==
    (last.op = "remove" /\ last.faulted # "") =>
        /\ last.faulted \in {"reload", "stop", "remove"}
        /\ last.kind = "raise"
        /\ last.exc = "ContainerRemoveError"
        /\ container = last.pre_container
        /\ container # NoHandle
        /\ last.same_config
        /\ last.faulted = "stop" => ~Issued(last.calls, "remove")

\* The courtesy stop of a remove faulted.
C31_Witness ==
    /\ last.op = "remove"
    /\ last.faulted = "stop"
    /\ last.kind = "raise"
    /\ Kinds(last.calls) = <<"reload", "stop">>

(***************************************************************************)
(* C32: after any sequence of create, start, stop, execute and remove      *)
(* calls, including calls that fail, the manager has a bound spec if and   *)
(* only if it holds a handle.                                              *)
(***************************************************************************)
C32_SpecIffHandle == (current_config # <<>>) <=> (container # NoHandle)

(***************************************************************************)
(* C33: in create the image pull precedes the engine create call; when the *)
(* pull (or the existence query before it) faults, no engine create call   *)
(* is issued, create raises ContainerCreateError, and the manager's handle *)
(* is the same as before the call.                                         *)
(***************************************************************************)
C33_PullBeforeCreate ==
    (last.op = "create") =>
        /\ Precedes(last.calls, "pull", "create")
        /\ Issued(last.calls, "create") => Issued(last.calls, "pull")
        /\ last.faulted \in {"list", "pull"} =>
             /\ ~Issued(last.calls, "create")
             /\ last.kind = "raise"
             /\ last.exc = "ContainerCreateError"
             /\ container = last.pre_container

\* The pull faulted on a manager that already held a handle.
C33_Witness ==
    /\ last.op = "create"
    /\ last.faulted = "pull"
    /\ last.pre_container # NoHandle
    /\ container = last.pre_container

(***************************************************************************)
(* C34: when the auto-start inside execute faults, execute raises          *)
(* ContainerExecuteError (not ContainerStartError), the command's exec     *)
(* call is not issued, and the handle stays bound.                         *)
(***************************************************************************)
C34_AutoStartFault ==
    (last.op = "execute" /\ last.faulted = "start") =>
        /\ last.kind = "raise"
        /\ last.exc = "ContainerExecuteError"
        /\ ~Issued(last.calls, "exec")
        /\ container = last.pre_container
        /\ container # NoHandle

C34_Witness ==
    /\ last.op = "execute"
    /\ last.faulted = "start"
    /\ last.pre_status = "exited"
    /\ last.exc = "ContainerExecuteError"

(***************************************************************************)
(* C35: execute of a command that exits with code 0 returns the captured   *)
(* stdout with surrounding whitespace stripped, and the empty string when  *)
(* no stdout was captured; stderr content does not affect the result.      *)
(***************************************************************************)
\* The stripped text of each stdout value of the model: 'hi' for b'hi\n',
\* 'ok' for b' ok ', '' for None.
C35_Stripped(out) ==
    CASE out = BytesHi -> <<104, 105>>
      [] out = BytesPadded -> <<111, 107>>
      [] out = NoBytes -> <<>>

C36_RemoveNotRunning ==
    (/\ last.op = "remove"
     /\ last.arg = FALSE
     /\ last.pre_container # NoHandle
     /\ last.faulted # "reload"
     /\ last.pre_status # "running") =>
        /\ ~Issued(last.calls, "stop")
        /\ Count(last.calls, "remove") = 1
        /\ last.calls[Len(last.calls)]
              = <<"remove", last.pre_container, FALSE>>

C36_Witness ==
    /\ last.op = "remove"
    /\ last.arg = FALSE
    /\ last.pre_status = "exited"
    /\ last.kind = "return"
    /\ Kinds(last.calls) = <<"reload", "remove">>

(***************************************************************************)
(* C37: the two package-operation translators agree.  For every OS family  *)
(* and every verb with the same argument, the standalone PackageManager    *)
(* class and the package methods built into ContainerManager hand the      *)
(* identical command string to execute, and both fail the same way when no *)
(* spec is bound.                                                          *)
(***************************************************************************)
C37_TranslatorsAgree ==
    [][(last'.op = "PackageManager"
        /\ last'.arg.config = current_config) =>
          /\ last'.command
                = PackageHands(last'.arg.verb, last'.arg.argument)
          /\ current_config = <<>> =>
               /\ last'.kind = "raise"
               /\ CurrentPackageManager.kind = "raise"
               /\ last'.exc = CurrentPackageManager.exc
               /\ last'.msg.text = CurrentPackageManager.msg[1]
               /\ last'.calls = <<>>
      ]_vars

\* The class, built with an Arch Linux spec, installed curl.
C37_Witness ==
    /\ last.op = "PackageManager"
    /\ last.arg.config # <<>>
    /\ last.arg.config = current_config
    /\ current_config[1].os_type = "ARCHLINUX"
    /\ last.arg.verb = "install_package"
    /\ last.command = "pacman -S --noconfirm curl"
    /\ last.kind = "return"

(***************************************************************************)
(* C38: in main, when create fails so that no handle is bound, the cleanup *)
(* step completes without an error escaping main; more generally no        *)
(* container error raised during the create-to-cleanup block leaves main   *)
(* unhandled.                                                              *)
(***************************************************************************)
C38_ContainerErrors ==
    {"ContainerError", "ContainerNotFoundError", "ContainerCreateError",
     "ContainerStartError", "ContainerStopError", "ContainerRemoveError",
     "ContainerExecuteError", "ContainerConfigError"}

C38_NoErrorEscapes ==
    (pc.at = "ended") =>
        /\ (pc.step = 1 /\ pc.failed /\ container = NoHandle) =>
              (pc.pending = "" /\ ~pc.escaped)
        /\ pc.pending \in C38_ContainerErrors => ~pc.escaped

(***************************************************************************)
(* C39: in the dependency container, get for a type prefers a registered   *)
(* instance over a factory; a factory registered for a type is invoked at  *)
(* most once across any number of get calls until remove or clear is       *)
(* called for that type; and get for an unregistered type returns nothing  *)
(* without raising.                                                        *)
(***************************************************************************)
C39_PrefersInstance ==
    (last.op = "get" /\ last.input.held) =>
        /\ ~last.input.invoked
        /\ last.kind = "return"
        /\ last.value = services[TypeName(last.arg)][1]

C39_InvokedAtMostOnce == \A n \in TypeNames : invocations[n] <= 1

C39_UnregisteredIsNothing ==
    (last.op = "get" /\ ~last.input.was_registered) =>
        /\ last.kind = "return"
        /\ last.value = NoneVal
        /\ ~last.input.invoked

C39_Container ==
    /\ C39_PrefersInstance
    /\ C39_InvokedAtMostOnce
    /\ C39_UnregisteredIsNothing

(***************************************************************************)
(* C40: CommandManager.execute_sudo leaves use_sudo and sudo_user with the *)
(* values they had before the call, whether the command succeeds, fails,   *)
(* times out, or execute raises.                                           *)
(***************************************************************************)
C40_SudoStateKept ==
    (last.op = "execute_sudo") =>
        /\ use_sudo = last.input.use_sudo
        /\ sudo_user = last.input.sudo_user

\* A timed-out `sudo -u root ls -la` on a manager built without sudo and
\* with another user.
C40_Witness ==
    /\ last.op = "execute_sudo"
    /\ last.kind = "return"
    /\ last.value.status = "timeout"
    /\ last.value.command = "sudo -u root ls -la"
    /\ ~last.input.use_sudo
    /\ last.input.sudo_user = "builder"
    /\ ~use_sudo
    /\ sudo_user = "builder"

====
